---- MODULE Spec2Model ----
(***************************************************************************)
(* Model of the Monkey-style scripting language of this repository:       *)
(* lexer (ast/ast.go, package lexer), Pratt parser (parser/parser.go) and  *)
(* tree-walking evaluator (package run).                                   *)
(*                                                                         *)
(* Source text is a sequence of one-character strings.  Token literals    *)
(* are such sequences too; identifier names and string values in the AST  *)
(* and in the object model are TLA+ strings built from them by Str.       *)
(***************************************************************************)
EXTENDS Integers, Sequences, FiniteSets, TLC

VARIABLES
    input,      \* the source text handed to lexer.New
    program,    \* the *ast.Program returned by ParseProgram
    errors,     \* Parser.errors after ParseProgram
    heap,       \* evaluator heap: environments, instances, output, scheduling
    result,     \* result of the last evaluated top-level statement
    idx,        \* number of top-level statements evaluated so far
    pc,         \* position in main(): "parse", "eval", "done"
    second,     \* result, idx and pc of a second Eval of the program, on a
                \* root environment of its own in the same heap
    lexer,      \* a Lexer whose NextToken is called directly, and the token
                \* its last call returned
    parser      \* the Parser while the statement loop of ParseProgram runs

vars == <<input, program, errors, heap, result, idx, pc, second, lexer, parser>>

\* A local variable of a function body (Go's x := e) is the bound variable
\* of a one-element set:
\*     CHOOSE ret \in { body : x \in {e} } : TRUE
\* is the body with x holding the value of e, and e is evaluated before the
\* body.  Of several assignments in a row the first is the outermost one.

(***************************************************************************)
(* Characters                                                              *)
(***************************************************************************)
NUL == "NUL"    \* the byte 0 that readChar stores at end of input

LowerCase == {"a","b","c","d","e","f","g","h","i","j","k","l","m",
              "n","o","p","q","r","s","t","u","v","w","x","y","z"}

UpperCase == {"A","B","C","D","E","F","G","H","I","J","K","L","M",
              "N","O","P","Q","R","S","T","U","V","W","X","Y","Z"}

isLetter(ch) == ch \in LowerCase \cup UpperCase \cup {"_"}

isDigit(ch) == ch \in {"0","1","2","3","4","5","6","7","8","9"}

DigitVal(ch) ==
    CASE ch = "0" -> 0 [] ch = "1" -> 1 [] ch = "2" -> 2 [] ch = "3" -> 3
      [] ch = "4" -> 4 [] ch = "5" -> 5 [] ch = "6" -> 6 [] ch = "7" -> 7
      [] ch = "8" -> 8 [] ch = "9" -> 9

RECURSIVE Str(_)
\* a Go string (byte sequence) as a TLA+ string
Str(cs) == IF cs = <<>> THEN "" ELSE Head(cs) \o Str(Tail(cs))

(***************************************************************************)
(* Tokens (types/tokens.go)                                                *)
(***************************************************************************)
NewToken(tokenType, literal, position) ==
    [Type |-> tokenType, Literal |-> literal, Position |-> position]

lookupIdent(ident) ==
    CASE ident = <<"f","u","n","c">>         -> "FUNCTION"
      [] ident = <<"l","e","t">>             -> "LET"
      [] ident = <<"t","r","u","e">>         -> "TRUE"
      [] ident = <<"f","a","l","s","e">>     -> "FALSE"
      [] ident = <<"i","f">>                 -> "IF"
      [] ident = <<"e","l","s","e">>         -> "ELSE"
      [] ident = <<"r","e","t","u","r","n">> -> "RETURN"
      [] ident = <<"p","r","i","n","t">>     -> "PRINT"
      [] ident = <<"n","u","l","l">>         -> "NULL"
      [] OTHER                               -> "IDENT"

(***************************************************************************)
(* Lexer (package lexer)                                                   *)
(***************************************************************************)
readChar(l) ==
    [l EXCEPT !.ch = IF l.readPosition >= Len(l.input) THEN NUL
                     ELSE l.input[l.readPosition + 1],
              !.position = l.readPosition,
              !.readPosition = l.readPosition + 1]

peekChar(l) ==
    IF l.readPosition >= Len(l.input) THEN NUL ELSE l.input[l.readPosition + 1]

LexerNew(in) ==
    readChar([input |-> in, position |-> 0, readPosition |-> 0, ch |-> NUL])

\* input[from:to] of Go (0-based, half open)
Slice(in, from, to) == SubSeq(in, from + 1, to)

RECURSIVE skipWhitespace(_)
skipWhitespace(l) ==
    IF l.ch \in {" ", "\t", "\n", "\r"} THEN (CHOOSE ret \in {
                                                 skipWhitespace(l2)
                                               : l2 \in {readChar(l)}} : TRUE) ELSE l

RECURSIVE readWhile(_, _)
\* the loop  for pred(l.ch) { l.readChar() }  of readIdentifier/readNumber
readWhile(l, letters) ==
    IF (IF letters THEN isLetter(l.ch) ELSE isDigit(l.ch))
    THEN (CHOOSE ret \in {
             readWhile(l2, letters)
           : l2 \in {readChar(l)}} : TRUE) ELSE l

readIdentifier(l) ==
    (CHOOSE ret \in {
        [lit |-> Slice(l.input, l.position, l2.position), l |-> l2]
      : l2 \in {readWhile(l, TRUE)}} : TRUE)

readNumber(l) ==
    (CHOOSE ret \in {
        [lit |-> Slice(l.input, l.position, l2.position), l |-> l2]
      : l2 \in {readWhile(l, FALSE)}} : TRUE)

RECURSIVE readStringLoop(_)
readStringLoop(l) ==
    (CHOOSE ret \in {
        IF l2.ch = "\"" \/ l2.ch = NUL THEN l2 ELSE readStringLoop(l2)
      : l2 \in {readChar(l)}} : TRUE)

readString(l) ==
    (CHOOSE ret \in {
        [lit |-> Slice(l.input, l.position + 1, l2.position), l |-> l2]
      : l2 \in {readStringLoop(l)}} : TRUE)

RECURSIVE readLineComment(_)
readLineComment(l) ==
    IF l.ch # "\n" /\ l.ch # NUL
    THEN (CHOOSE ret \in {
             readLineComment(l2)
           : l2 \in {readChar(l)}} : TRUE) ELSE l

RECURSIVE readBlockCommentLoop(_)
readBlockCommentLoop(l) ==
    IF l.ch = "*" /\ peekChar(l) = "/" THEN readChar(readChar(l))
    ELSE IF l.ch = NUL THEN l
    ELSE (CHOOSE ret \in {
             readBlockCommentLoop(l2)
           : l2 \in {readChar(l)}} : TRUE)

readBlockComment(l) ==
    (CHOOSE ret \in {
        readBlockCommentLoop(l2)
      : l2 \in {readChar(readChar(l))}} : TRUE)

SingleCharType(ch) ==
    CASE ch = "+" -> "PLUS"      [] ch = "-" -> "MINUS"
      [] ch = "*" -> "ASTERISK"  [] ch = "<" -> "LT"
      [] ch = ">" -> "GT"        [] ch = ";" -> "SEMICOLON"
      [] ch = "," -> "COMMA"     [] ch = ":" -> "COLON"
      [] ch = "." -> "DOT"       [] ch = "{" -> "LBRACE"
      [] ch = "}" -> "RBRACE"    [] ch = "[" -> "LBRACKET"
      [] ch = "]" -> "RBRACKET"  [] ch = "(" -> "LPAREN"
      [] ch = ")" -> "RPAREN"    [] OTHER    -> "ILLEGAL"

RECURSIVE NextToken(_)
\* returns the token and the advanced lexer
NextToken(l0) ==
    (CHOOSE ret \in {
    LET one(ty) == [tok |-> NewToken(ty, <<l.ch>>, l.position), l |-> readChar(l)]
        two(ty) == (CHOOSE ret \in {
                       [tok |-> NewToken(ty, <<l.ch, l2.ch>>, l2.position),
                        l |-> readChar(l2)]
                     : l2 \in {readChar(l)}} : TRUE)
    IN  CASE l.ch = "=" -> IF peekChar(l) = "=" THEN two("EQ") ELSE one("ASSIGN")
          [] l.ch = "!" -> IF peekChar(l) = "=" THEN two("NOT_EQ") ELSE one("BANG")
          [] l.ch = "/" ->
                IF peekChar(l) = "/"
                THEN (CHOOSE ret \in {
                         NextToken(l2)
                       : l2 \in {readLineComment(l)}} : TRUE)
                ELSE IF peekChar(l) = "*"
                THEN (CHOOSE ret \in {
                         NextToken(l2)
                       : l2 \in {readBlockComment(l)}} : TRUE)
                ELSE one("SLASH")
          [] l.ch = "\"" ->
                (CHOOSE ret \in {
                    [tok |-> NewToken("STRING", r.lit, r.l.position),
                     l |-> readChar(r.l)]
                  : r \in {readString(l)}} : TRUE)
          [] l.ch = NUL ->
                [tok |-> NewToken("EOF", <<>>, l.position), l |-> readChar(l)]
          [] OTHER ->
                IF isLetter(l.ch)
                THEN (CHOOSE ret \in {
                         [tok |-> NewToken(lookupIdent(r.lit), r.lit, r.l.position),
                          l |-> r.l]
                       : r \in {readIdentifier(l)}} : TRUE)
                ELSE IF isDigit(l.ch)
                THEN (CHOOSE ret \in {
                         [tok |-> NewToken("INT", r.lit, r.l.position), l |-> r.l]
                       : r \in {readNumber(l)}} : TRUE)
                ELSE one(SingleCharType(l.ch))
      : l \in {skipWhitespace(l0)}} : TRUE)

RECURSIVE TokensFrom(_)
\* the tokens NextToken returns up to and including the first EOF
TokensFrom(l) ==
    (CHOOSE ret \in {
        IF r.tok.Type = "EOF" THEN <<r.tok>> ELSE <<r.tok>> \o TokensFrom(r.l)
      : r \in {NextToken(l)}} : TRUE)

Tokenize(in) == TokensFrom(LexerNew(in))

(***************************************************************************)
(* AST (package ast).  A node is a record with a `kind` field; the nil    *)
(* interface value is NilNode; a nil pointer of a statement type wrapped  *)
(* in the Statement interface is TypedNil(kind).                           *)
(***************************************************************************)
NilNode == [kind |-> "nil"]

TypedNil(k) == [kind |-> k, nilptr |-> TRUE]

Identifier(name) == [kind |-> "Identifier", Value |-> name]

(***************************************************************************)
(* Parser (parser/parser.go)                                               *)
(***************************************************************************)
LOWEST == 1
EQUALS == 2
LESSGREATER == 3
SUM == 4
PRODUCT == 5
PREFIX == 6
CALL == 7
INDEX == 8

precedences ==
    [ASSIGN |-> LOWEST, EQ |-> EQUALS, NOT_EQ |-> EQUALS,
     LT |-> LESSGREATER, GT |-> LESSGREATER, PLUS |-> SUM, MINUS |-> SUM,
     SLASH |-> PRODUCT, ASTERISK |-> PRODUCT, LPAREN |-> CALL,
     LBRACKET |-> INDEX, DOT |-> INDEX]

\* TokenType.String()
TokenTypeString(t) ==
    CASE t = "ASSIGN" -> "="    [] t = "PLUS" -> "+"      [] t = "MINUS" -> "-"
      [] t = "BANG" -> "!"      [] t = "ASTERISK" -> "*"  [] t = "SLASH" -> "/"
      [] t = "LT" -> "<"        [] t = "GT" -> ">"        [] t = "COMMA" -> ","
      [] t = "SEMICOLON" -> ";" [] t = "LPAREN" -> "("    [] t = "RPAREN" -> ")"
      [] t = "LBRACE" -> "{"    [] t = "RBRACE" -> "}"    [] t = "EQ" -> "=="
      [] t = "NOT_EQ" -> "!="   [] t = "LBRACKET" -> "["  [] t = "RBRACKET" -> "]"
      [] t = "DOT" -> "."       [] t = "COLON" -> ":"     [] OTHER -> t

\* the token types New registers a prefix parse function for
prefixParseFns ==
    {"IDENT", "INT", "STRING", "BANG", "MINUS", "TRUE", "FALSE", "LPAREN",
     "IF", "FUNCTION", "PRINT", "LBRACKET", "LBRACE", "NEW", "THIS", "SUPER",
     "NULL"}

\* the token types New registers an infix parse function for
infixParseFns ==
    {"PLUS", "MINUS", "SLASH", "ASTERISK", "EQ", "NOT_EQ", "LT", "GT",
     "LPAREN", "LBRACKET", "DOT", "ASSIGN"}

nextToken(p) ==
    (CHOOSE ret \in {
        [p EXCEPT !.curToken = p.peekToken, !.peekToken = r.tok, !.l = r.l]
      : r \in {NextToken(p.l)}} : TRUE)

ParserNew(l) ==
    nextToken(nextToken([l |-> l, errors |-> <<>>,
                         curToken |-> NewToken("ILLEGAL", <<>>, 0),
                         peekToken |-> NewToken("ILLEGAL", <<>>, 0)]))

curTokenIs(p, t) == p.curToken.Type = t

peekTokenIs(p, t) == p.peekToken.Type = t

peekError(p, t) ==
    [p EXCEPT !.errors = Append(@, "expected next token to be " \o TokenTypeString(t)
                                   \o ", got " \o TokenTypeString(p.peekToken.Type)
                                   \o " instead")]

expectPeek(p, t) ==
    IF peekTokenIs(p, t) THEN [ok |-> TRUE, p |-> nextToken(p)]
    ELSE [ok |-> FALSE, p |-> peekError(p, t)]

noPrefixParseFnError(p, t) ==
    [p EXCEPT !.errors = Append(@, "no prefix parse function for "
                                   \o TokenTypeString(t) \o " found")]

peekPrecedence(p) ==
    IF p.peekToken.Type \in DOMAIN precedences
    THEN precedences[p.peekToken.Type] ELSE LOWEST

\* a parser whose infix operators all hand LOWEST to their right operand
curPrecedenceLowest(p) == LOWEST

curPrecedence(p) ==
    IF p.curToken.Type \in DOMAIN precedences
    THEN precedences[p.curToken.Type] ELSE LOWEST

N(node, p) == [node |-> node, p |-> p]

RECURSIVE ParseDigits(_, _, _)
\* digit accumulation of strconv.ParseUint; -1 is the syntax error for a
\* digit that is not below the base
ParseDigits(cs, base, acc) ==
    IF cs = <<>> THEN acc
    ELSE IF DigitVal(Head(cs)) >= base THEN -1
    ELSE ParseDigits(Tail(cs), base, acc * base + DigitVal(Head(cs)))

\* strconv.ParseInt(s, 0, 64) on a digit run: a leading 0 selects base 8.
\* The digit runs of the model stay far below 2^63, so the range error of
\* ParseInt cannot occur.
ParseInt(cs) ==
    IF Head(cs) = "0" THEN ParseDigits(Tail(cs), 8, 0)
    ELSE ParseDigits(cs, 10, 0)

parseIdentifier(p) == N(Identifier(Str(p.curToken.Literal)), p)

parseIntegerLiteral(p) ==
    (CHOOSE ret \in {
        IF value < 0
        THEN N(NilNode, [p EXCEPT !.errors = Append(@, "could not parse \""
                             \o Str(p.curToken.Literal) \o "\" as integer")])
        ELSE N([kind |-> "IntegerLiteral", Value |-> value], p)
      : value \in {ParseInt(p.curToken.Literal)}} : TRUE)

parseStringLiteral(p) ==
    N([kind |-> "StringLiteral", Value |-> Str(p.curToken.Literal)], p)

parseBoolean(p) == N([kind |-> "Boolean", Value |-> curTokenIs(p, "TRUE")], p)

parseThisExpression(p) == N([kind |-> "ThisExpression"], p)

parseSuperExpression(p) == N([kind |-> "SuperExpression"], p)

parseNullExpression(p) == N([kind |-> "NullExpression"], p)

\* obj.Pairs[key] = value on the Go map keyed by the key expression: every
\* parsed key is a distinct node, only nil keys coincide
PutPair(pairs, key, value) ==
    IF key = NilNode /\ \E i \in 1..Len(pairs) : pairs[i][1] = NilNode
    THEN [i \in 1..Len(pairs) |->
             IF pairs[i][1] = NilNode THEN <<key, value>> ELSE pairs[i]]
    ELSE Append(pairs, <<key, value>>)

parseFunctionParametersLoop(p, identifiers) ==
    LET RECURSIVE loop(_, _)
        loop(q, ids) ==
            IF peekTokenIs(q, "COMMA")
            THEN (CHOOSE ret \in {
                     loop(q2, Append(ids, Str(q2.curToken.Literal)))
                   : q2 \in {nextToken(nextToken(q))}} : TRUE)
            ELSE [ids |-> ids, p |-> q]
    IN  loop(p, identifiers)

\* returns the parameter names; a nil slice is the empty sequence
parseFunctionParameters(p) ==
    IF peekTokenIs(p, "RPAREN") THEN [ids |-> <<>>, p |-> nextToken(p)]
    ELSE (CHOOSE ret \in {
             (CHOOSE ret \in {
             (CHOOSE ret \in {
             IF ~e.ok THEN [ids |-> <<>>, p |-> e.p]
             ELSE [ids |-> r.ids, p |-> e.p]
               : e \in {expectPeek(r.p, "RPAREN")}} : TRUE)
               : r \in {parseFunctionParametersLoop(p1, <<Str(p1.curToken.Literal)>>)}} : TRUE)
           : p1 \in {nextToken(p)}} : TRUE)

RECURSIVE parseStatement(_), parseLetStatement(_), parseReturnStatement(_),
          parseClassStatement(_), parseClassBody(_, _),
          parseExpressionStatement(_), parseExpression(_, _),
          parseExpressionLoop(_, _, _), prefixFn(_), infixFn(_, _),
          parseArrayLiteral(_), parseObjectLiteral(_), parseObjectPairs(_, _),
          parseNewExpression(_), parsePrefixExpression(_),
          parseInfixExpression(_, _), parseIndexExpression(_, _),
          parsePropertyExpression(_, _), parseAssignmentExpression(_, _),
          parseGroupedExpression(_), parseIfExpression(_),
          parseBlockStatement(_), parseBlockLoop(_, _),
          parseFunctionLiteral(_), parsePrintStatement(_),
          parseCallExpression(_, _), parseExpressionList(_, _),
          parseExpressionListLoop(_, _, _)

parseStatement(p) ==
    CASE p.curToken.Type = "LET"    -> parseLetStatement(p)
      [] p.curToken.Type = "RETURN" -> parseReturnStatement(p)
      [] p.curToken.Type = "CLASS"  -> parseClassStatement(p)
      [] OTHER                      -> parseExpressionStatement(p)

parseLetStatement(p) ==
    (CHOOSE ret \in {
        IF ~e1.ok THEN N(TypedNil("LetStatement"), e1.p)
        ELSE
        (CHOOSE ret \in {
            (CHOOSE ret \in {
            IF ~e2.ok THEN N(TypedNil("LetStatement"), e2.p)
            ELSE
            (CHOOSE ret \in {
                (CHOOSE ret \in {
                N([kind |-> "LetStatement", Name |-> name, Value |-> v.node], p3)
                  : p3 \in {IF peekTokenIs(v.p, "SEMICOLON") THEN nextToken(v.p) ELSE v.p}} : TRUE)
              : v \in {parseExpression(nextToken(e2.p), LOWEST)}} : TRUE)
              : e2 \in {expectPeek(e1.p, "ASSIGN")}} : TRUE)
          : name \in {Str(e1.p.curToken.Literal)}} : TRUE)
      : e1 \in {expectPeek(p, "IDENT")}} : TRUE)

parseReturnStatement(p) ==
    (CHOOSE ret \in {
        (CHOOSE ret \in {
        N([kind |-> "ReturnStatement", ReturnValue |-> v.node], p2)
          : p2 \in {IF peekTokenIs(v.p, "SEMICOLON") THEN nextToken(v.p) ELSE v.p}} : TRUE)
      : v \in {parseExpression(nextToken(p), LOWEST)}} : TRUE)

parseExpressionStatement(p) ==
    (CHOOSE ret \in {
        (CHOOSE ret \in {
        N([kind |-> "ExpressionStatement", Expression |-> v.node], p2)
          : p2 \in {IF peekTokenIs(v.p, "SEMICOLON") THEN nextToken(v.p) ELSE v.p}} : TRUE)
      : v \in {parseExpression(p, LOWEST)}} : TRUE)

\* the method loop of parseClassStatement; returns the method literals
parseClassBody(p, methods) ==
    IF curTokenIs(p, "RBRACE") \/ curTokenIs(p, "EOF") THEN [ms |-> methods, p |-> p]
    ELSE IF p.curToken.Type # "LET" THEN parseClassBody(nextToken(p), methods)
    ELSE
    (CHOOSE ret \in {
        IF ~e1.ok THEN parseClassBody(nextToken(e1.p), methods)
        ELSE
        (CHOOSE ret \in {
            (CHOOSE ret \in {
            IF ~e2.ok THEN parseClassBody(nextToken(e2.p), methods)
            ELSE
            (CHOOSE ret \in {
                IF ~e3.ok THEN parseClassBody(nextToken(e3.p), methods)
                ELSE
                (CHOOSE ret \in {
                    IF m.node = NilNode
                    THEN parseClassBody(nextToken(m.p), methods)
                    ELSE parseClassBody(nextToken(m.p),
                            Append(methods,
                                [m.node EXCEPT !.Parameters = <<methodName>> \o @]))
                  : m \in {parseFunctionLiteral(e3.p)}} : TRUE)
              : e3 \in {expectPeek(e2.p, "FUNCTION")}} : TRUE)
              : e2 \in {expectPeek(e1.p, "ASSIGN")}} : TRUE)
          : methodName \in {Str(e1.p.curToken.Literal)}} : TRUE)
      : e1 \in {expectPeek(p, "IDENT")}} : TRUE)

parseClassStatement(p) ==
    (CHOOSE ret \in {
        IF ~e1.ok THEN N(TypedNil("ClassStatement"), e1.p)
        ELSE
        (CHOOSE ret \in {
            (CHOOSE ret \in {
            IF ~ext.ok THEN N(TypedNil("ClassStatement"), ext.p)
            ELSE
            (CHOOSE ret \in {
                (CHOOSE ret \in {
                IF ~e2.ok THEN N(TypedNil("ClassStatement"), e2.p)
                ELSE
                (CHOOSE ret \in {
                    N([kind |-> "ClassStatement", Name |-> name,
                       SuperClass |-> super, Methods |-> b.ms], b.p)
                  : b \in {parseClassBody(e2.p, <<>>)}} : TRUE)
                  : e2 \in {expectPeek(ext.p, "LBRACE")}} : TRUE)
              : super \in {IF peekTokenIs(e1.p, "EXTENDS")
                         THEN Identifier(Str(ext.p.curToken.Literal)) ELSE NilNode}} : TRUE)
              : ext \in {IF peekTokenIs(e1.p, "EXTENDS")
                    THEN expectPeek(nextToken(e1.p), "IDENT")
                    ELSE [ok |-> TRUE, p |-> e1.p]}} : TRUE)
          : name \in {Str(e1.p.curToken.Literal)}} : TRUE)
      : e1 \in {expectPeek(p, "IDENT")}} : TRUE)

prefixFn(p) ==
    CASE p.curToken.Type = "IDENT"    -> parseIdentifier(p)
      [] p.curToken.Type = "INT"      -> parseIntegerLiteral(p)
      [] p.curToken.Type = "STRING"   -> parseStringLiteral(p)
      [] p.curToken.Type \in {"BANG", "MINUS"} -> parsePrefixExpression(p)
      [] p.curToken.Type \in {"TRUE", "FALSE"} -> parseBoolean(p)
      [] p.curToken.Type = "LPAREN"   -> parseGroupedExpression(p)
      [] p.curToken.Type = "IF"       -> parseIfExpression(p)
      [] p.curToken.Type = "FUNCTION" -> parseFunctionLiteral(p)
      [] p.curToken.Type = "PRINT"    -> parsePrintStatement(p)
      [] p.curToken.Type = "LBRACKET" -> parseArrayLiteral(p)
      [] p.curToken.Type = "LBRACE"   -> parseObjectLiteral(p)
      [] p.curToken.Type = "NEW"      -> parseNewExpression(p)
      [] p.curToken.Type = "THIS"     -> parseThisExpression(p)
      [] p.curToken.Type = "SUPER"    -> parseSuperExpression(p)
      [] p.curToken.Type = "NULL"     -> parseNullExpression(p)

infixFn(p, left) ==
    CASE p.curToken.Type = "LPAREN"   -> parseCallExpression(p, left)
      [] p.curToken.Type = "LBRACKET" -> parseIndexExpression(p, left)
      [] p.curToken.Type = "DOT"      -> parsePropertyExpression(p, left)
      [] p.curToken.Type = "ASSIGN"   -> parseAssignmentExpression(p, left)
      [] OTHER          -> parseInfixExpression(p, left)

parseExpression(p, precedence) ==
    IF p.curToken.Type \notin prefixParseFns
    THEN N(NilNode, noPrefixParseFnError(p, p.curToken.Type))
    ELSE (CHOOSE ret \in {
             parseExpressionLoop(l.p, precedence, l.node)
           : l \in {prefixFn(p)}} : TRUE)

parseExpressionLoop(p, precedence, leftExp) ==
    IF ~peekTokenIs(p, "SEMICOLON") /\ precedence < peekPrecedence(p)
    THEN IF p.peekToken.Type \notin infixParseFns THEN N(leftExp, p)
         ELSE (CHOOSE ret \in {
                  parseExpressionLoop(r.p, precedence, r.node)
                : r \in {infixFn(nextToken(p), leftExp)}} : TRUE)
    ELSE N(leftExp, p)

parseArrayLiteral(p) ==
    (CHOOSE ret \in {
        N([kind |-> "ArrayLiteral", Elements |-> r.args], r.p)
      : r \in {parseExpressionList(p, "RBRACKET")}} : TRUE)

parseObjectPairs(p, pairs) ==
    IF ~peekTokenIs(p, "RBRACE") /\ ~peekTokenIs(p, "EOF")
    THEN (CHOOSE ret \in {
             (CHOOSE ret \in {
             IF ~e.ok THEN [ok |-> FALSE, pairs |-> pairs, p |-> e.p]
             ELSE
             (CHOOSE ret \in {
                 (CHOOSE ret \in {
                 IF ~peekTokenIs(v.p, "RBRACE")
                 THEN (CHOOSE ret \in {
                          IF ~c.ok THEN [ok |-> FALSE, pairs |-> ps, p |-> c.p]
                          ELSE parseObjectPairs(c.p, ps)
                        : c \in {expectPeek(v.p, "COMMA")}} : TRUE)
                 ELSE parseObjectPairs(v.p, ps)
                   : ps \in {PutPair(pairs, k.node, v.node)}} : TRUE)
               : v \in {parseExpression(nextToken(e.p), LOWEST)}} : TRUE)
               : e \in {expectPeek(k.p, "COLON")}} : TRUE)
           : k \in {parseExpression(nextToken(p), LOWEST)}} : TRUE)
    ELSE [ok |-> TRUE, pairs |-> pairs, p |-> p]

parseObjectLiteral(p) ==
    (CHOOSE ret \in {
        IF ~r.ok THEN N(NilNode, r.p)
        ELSE (CHOOSE ret \in {
                 IF ~e.ok THEN N(NilNode, e.p)
                 ELSE N([kind |-> "ObjectLiteral", Pairs |-> r.pairs], e.p)
               : e \in {expectPeek(r.p, "RBRACE")}} : TRUE)
      : r \in {parseObjectPairs(p, <<>>)}} : TRUE)

parseNewExpression(p) ==
    (CHOOSE ret \in {
        IF ~e1.ok THEN N(NilNode, e1.p)
        ELSE
        (CHOOSE ret \in {
            (CHOOSE ret \in {
            IF ~e2.ok THEN N(NilNode, e2.p)
            ELSE (CHOOSE ret \in {
                     N([kind |-> "NewExpression", Class |-> class,
                        Arguments |-> r.args], r.p)
                   : r \in {parseExpressionList(e2.p, "RPAREN")}} : TRUE)
              : e2 \in {expectPeek(e1.p, "LPAREN")}} : TRUE)
          : class \in {Identifier(Str(e1.p.curToken.Literal))}} : TRUE)
      : e1 \in {expectPeek(p, "IDENT")}} : TRUE)

parsePrefixExpression(p) ==
    (CHOOSE ret \in {
        N([kind |-> "PrefixExpression", Operator |-> Str(p.curToken.Literal),
           Right |-> r.node], r.p)
      : r \in {parseExpression(nextToken(p), PREFIX)}} : TRUE)

parseInfixExpression(p, left) ==
    (CHOOSE ret \in {
        N([kind |-> "InfixExpression", Operator |-> Str(p.curToken.Literal),
           Left |-> left, Right |-> r.node], r.p)
      : r \in {parseExpression(nextToken(p), curPrecedence(p))}} : TRUE)

parseIndexExpression(p, left) ==
    (CHOOSE ret \in {
        (CHOOSE ret \in {
        IF ~e.ok THEN N(NilNode, e.p)
        ELSE N([kind |-> "IndexExpression", Left |-> left, Index |-> r.node], e.p)
          : e \in {expectPeek(r.p, "RBRACKET")}} : TRUE)
      : r \in {parseExpression(nextToken(p), LOWEST)}} : TRUE)

parsePropertyExpression(p, left) ==
    (CHOOSE ret \in {
        IF ~e.ok THEN N(NilNode, e.p)
        ELSE N([kind |-> "PropertyExpression", Object |-> left,
                Property |-> Str(e.p.curToken.Literal)], e.p)
      : e \in {expectPeek(p, "IDENT")}} : TRUE)

parseAssignmentExpression(p, left) ==
    (CHOOSE ret \in {
        N([kind |-> "AssignmentExpression", Left |-> left, Value |-> r.node], r.p)
      : r \in {parseExpression(nextToken(p), LOWEST)}} : TRUE)

parseGroupedExpression(p) ==
    (CHOOSE ret \in {
        (CHOOSE ret \in {
        IF ~e.ok THEN N(NilNode, e.p) ELSE N(r.node, e.p)
          : e \in {expectPeek(r.p, "RPAREN")}} : TRUE)
      : r \in {parseExpression(nextToken(p), LOWEST)}} : TRUE)

parseIfExpression(p) ==
    (CHOOSE ret \in {
        IF ~e1.ok THEN N(NilNode, e1.p)
        ELSE
        (CHOOSE ret \in {
            (CHOOSE ret \in {
            IF ~e2.ok THEN N(NilNode, e2.p)
            ELSE
            (CHOOSE ret \in {
                IF ~e3.ok THEN N(NilNode, e3.p)
                ELSE
                (CHOOSE ret \in {
                    IF peekTokenIs(cons.p, "ELSE")
                    THEN (CHOOSE ret \in {
                             IF ~e4.ok THEN N(NilNode, e4.p)
                             ELSE (CHOOSE ret \in {
                                      N([kind |-> "IfExpression",
                                         Condition |-> c.node,
                                         Consequence |-> cons.node,
                                         Alternative |-> alt.node], alt.p)
                                    : alt \in {parseBlockStatement(e4.p)}} : TRUE)
                           : e4 \in {expectPeek(nextToken(cons.p), "LBRACE")}} : TRUE)
                    ELSE N([kind |-> "IfExpression", Condition |-> c.node,
                            Consequence |-> cons.node,
                            Alternative |-> NilNode], cons.p)
                  : cons \in {parseBlockStatement(e3.p)}} : TRUE)
              : e3 \in {expectPeek(e2.p, "LBRACE")}} : TRUE)
              : e2 \in {expectPeek(c.p, "RPAREN")}} : TRUE)
          : c \in {parseExpression(nextToken(e1.p), LOWEST)}} : TRUE)
      : e1 \in {expectPeek(p, "LPAREN")}} : TRUE)

parseBlockLoop(p, stmts) ==
    IF ~curTokenIs(p, "RBRACE") /\ ~curTokenIs(p, "EOF")
    THEN (CHOOSE ret \in {
             parseBlockLoop(nextToken(s.p),
                 IF s.node # NilNode THEN Append(stmts, s.node) ELSE stmts)
           : s \in {parseStatement(p)}} : TRUE)
    ELSE N([kind |-> "BlockStatement", Statements |-> stmts], p)

parseBlockStatement(p) == parseBlockLoop(nextToken(p), <<>>)

parseFunctionLiteral(p) ==
    (CHOOSE ret \in {
        IF ~e1.ok THEN N(NilNode, e1.p)
        ELSE
        (CHOOSE ret \in {
            (CHOOSE ret \in {
            IF ~e2.ok THEN N(NilNode, e2.p)
            ELSE (CHOOSE ret \in {
                     N([kind |-> "FunctionLiteral", Parameters |-> ps.ids,
                        Body |-> b.node], b.p)
                   : b \in {parseBlockStatement(e2.p)}} : TRUE)
              : e2 \in {expectPeek(ps.p, "LBRACE")}} : TRUE)
          : ps \in {parseFunctionParameters(e1.p)}} : TRUE)
      : e1 \in {expectPeek(p, "LPAREN")}} : TRUE)

parsePrintStatement(p) ==
    (CHOOSE ret \in {
        IF ~e.ok THEN N(NilNode, e.p)
        ELSE (CHOOSE ret \in {
                 N([kind |-> "CallExpression",
                    Function |-> Identifier(Str(p.curToken.Literal)),
                    Arguments |-> r.args], r.p)
               : r \in {parseExpressionList(e.p, "RPAREN")}} : TRUE)
      : e \in {expectPeek(p, "LPAREN")}} : TRUE)

parseCallExpression(p, fn) ==
    (CHOOSE ret \in {
        N([kind |-> "CallExpression", Function |-> fn, Arguments |-> r.args], r.p)
      : r \in {parseExpressionList(p, "RPAREN")}} : TRUE)

parseExpressionListLoop(p, end, args) ==
    IF peekTokenIs(p, "COMMA")
    THEN (CHOOSE ret \in {
             parseExpressionListLoop(r.p, end, Append(args, r.node))
           : r \in {parseExpression(nextToken(nextToken(p)), LOWEST)}} : TRUE)
    ELSE (CHOOSE ret \in {
             IF ~e.ok THEN [args |-> <<>>, p |-> e.p]
             ELSE [args |-> args, p |-> e.p]
           : e \in {expectPeek(p, end)}} : TRUE)

\* returns the argument expressions; a nil slice is the empty sequence
parseExpressionList(p, end) ==
    IF peekTokenIs(p, end) THEN [args |-> <<>>, p |-> nextToken(p)]
    ELSE (CHOOSE ret \in {
             parseExpressionListLoop(r.p, end, <<r.node>>)
           : r \in {parseExpression(nextToken(p), LOWEST)}} : TRUE)

\* a statement loop that leaves the token where parseStatement stopped
ParseProgramIterStay(p, stmts) ==
    (CHOOSE ret \in {
        [p |-> s.p,
         stmts |-> IF s.node # NilNode THEN Append(stmts, s.node) ELSE stmts]
      : s \in {parseStatement(p)}} : TRUE)

\* one iteration of the statement loop of ParseProgram
ParseProgramIter(p, stmts) ==
    (CHOOSE ret \in {
        [p |-> nextToken(s.p),
         stmts |-> IF s.node # NilNode THEN Append(stmts, s.node) ELSE stmts]
      : s \in {parseStatement(p)}} : TRUE)

RECURSIVE ParseProgramLoop(_, _)
ParseProgramLoop(p, stmts) ==
    IF p.curToken.Type # "EOF"
    THEN (CHOOSE ret \in {
             ParseProgramLoop(r.p, r.stmts)
           : r \in {ParseProgramIter(p, stmts)}} : TRUE)
    ELSE [program |-> [kind |-> "Program", Statements |-> stmts], p |-> p]

\* parser.New(lexer.New(input)).ParseProgram(): the Program and p.Errors()
ParseProgram(in) ==
    (CHOOSE ret \in {
        [program |-> r.program, errors |-> r.p.errors]
      : r \in {ParseProgramLoop(ParserNew(LexerNew(in)), <<>>)}} : TRUE)

(***************************************************************************)
(* Object model (package run).  An Object is a record with a `Type`       *)
(* field.  Objects that Go compares by pointer carry the identity `id`    *)
(* of their allocation; Instances and Environments are mutable and live   *)
(* in the heap, referenced by index.  NilObject is the nil interface      *)
(* value, Panic the run-time panic that unwinds the whole evaluation.     *)
(***************************************************************************)
NilObject == [Type |-> "nil"]

Panic(msg) == [Type |-> "PANIC", Message |-> msg]

IsPanic(obj) == obj.Type = "PANIC"

NilDeref == Panic("invalid memory address or nil pointer dereference")

NULL == [Type |-> "NULL"]

TRUE_OBJ == [Type |-> "BOOLEAN", Value |-> TRUE]

FALSE_OBJ == [Type |-> "BOOLEAN", Value |-> FALSE]

Integer(i) == [Type |-> "INTEGER", Value |-> i]

String(s) == [Type |-> "STRING", Value |-> s]

newError(msg) == [Type |-> "ERROR", Message |-> msg]

isError(obj) == obj # NilObject /\ obj.Type = "ERROR"

\* isError, or the panic that no caller gets to inspect
Halts(obj) == isError(obj) \/ IsPanic(obj)

nativeBoolToPyMonkeyBoolean(b) == IF b THEN TRUE_OBJ ELSE FALSE_OBJ

\* the %T verb of fmt
GoTypeName(obj) ==
    CASE obj.Type = "nil"          -> "<nil>"
      [] obj.Type = "INTEGER"      -> "*run.Integer"
      [] obj.Type = "STRING"       -> "*run.String"
      [] obj.Type = "BOOLEAN"      -> "*run.Boolean"
      [] obj.Type = "NULL"         -> "*run.Null"
      [] obj.Type = "ARRAY"        -> "*run.Array"
      [] obj.Type = "HASH"         -> "*run.Hash"
      [] obj.Type = "FUNCTION"     -> "*run.Function"
      [] obj.Type = "BUILTIN"      -> "*run.Builtin"
      [] obj.Type = "CLASS"        -> "*run.Class"
      [] obj.Type = "INSTANCE"     -> "*run.Instance"
      [] obj.Type = "BOUND_METHOD" -> "*run.BoundMethod"
      [] obj.Type = "RETURN_VALUE" -> "*run.ReturnValue"
      [] obj.Type = "ERROR"        -> "*run.Error"

RECURSIVE Inspect(_), InspectJoin(_, _)
\* Object.Inspect(): the printed form of an object
Inspect(obj) ==
    CASE obj.Type = "INTEGER" -> ToString(obj.Value)
      [] obj.Type = "STRING"  -> obj.Value
      [] obj.Type = "BOOLEAN" -> IF obj.Value THEN "true" ELSE "false"
      [] obj.Type = "NULL"    -> "null"
      [] obj.Type = "ARRAY"   -> "[" \o InspectJoin(obj.Elements, 1) \o "]"
      [] obj.Type = "RETURN_VALUE" -> Inspect(obj.Value)
      [] obj.Type = "ERROR"   -> "ERROR: " \o obj.Message
      [] OTHER                -> "<" \o obj.Type \o ">"

InspectJoin(els, i) ==
    IF i > Len(els) THEN ""
    ELSE Inspect(els[i]) \o (IF i < Len(els) THEN ", " ELSE "")
         \o InspectJoin(els, i + 1)

\* the interface comparison left == right of Go: same dynamic type and same
\* pointer; TRUE, FALSE and NULL are singletons
SameObject(a, b) ==
    /\ a.Type = b.Type
    /\ CASE a.Type \in {"nil", "NULL"}  -> TRUE
         [] a.Type = "BOOLEAN"          -> a.Value = b.Value
         [] a.Type = "BUILTIN"          -> a.Name = b.Name
         [] a.Type = "INSTANCE"         -> a.ref = b.ref
         [] a.Type \in {"ARRAY", "HASH", "FUNCTION", "CLASS", "BOUND_METHOD",
                        "RETURN_VALUE"} -> a.id = b.id
         [] OTHER                       -> FALSE

(***************************************************************************)
(* Heap: environments, instances, standard output                          *)
(***************************************************************************)
EmptyStore == [n \in {} |-> NULL]

EmptyHeap ==
    [envs |-> <<>>, insts |-> <<>>, out |-> <<>>, nobj |-> 0, order |-> <<>>]

V(v, h) == [v |-> v, h |-> h]

\* NewEnvironment / NewEnclosedEnvironment; outer = 0 is the nil pointer
NewEnclosedEnvironment(h, outer) ==
    [env |-> Len(h.envs) + 1,
     h   |-> [h EXCEPT !.envs = Append(@, [store |-> EmptyStore, outer |-> outer])]]

\* NewEnvironment handing out the one root environment there already is
NewEnvironmentShared(h) ==
    IF h.envs # <<>> THEN [env |-> 1, h |-> h]
    ELSE NewEnclosedEnvironment(h, 0)

NewEnvironment(h) == NewEnclosedEnvironment(h, 0)

RECURSIVE Get(_, _, _)
\* Environment.Get: [ok, value]
Get(h, env, name) ==
    IF name \in DOMAIN h.envs[env].store
    THEN [ok |-> TRUE, value |-> h.envs[env].store[name]]
    ELSE IF h.envs[env].outer # 0 THEN Get(h, h.envs[env].outer, name)
    ELSE [ok |-> FALSE, value |-> NilObject]

\* Environment.Set keeping the binding the store already has
SetKeepFirst(h, env, name, val) ==
    [h EXCEPT !.envs[env].store = @ @@ (name :> val)]

\* Environment.Set
Set(h, env, name, val) ==
    [h EXCEPT !.envs[env].store = (name :> val) @@ @]

\* a fresh pointer identity
Alloc(h) == [id |-> h.nobj + 1, h |-> [h EXCEPT !.nobj = @ + 1]]

builtinNames == {"print", "len", "push"}

Builtin(name) == [Type |-> "BUILTIN", Name |-> name]

(***************************************************************************)
(* Evaluator (package run)                                                 *)
(***************************************************************************)
\* Go's integer division truncates toward zero and panics on a zero divisor
GoDiv(a, b) ==
    LET abs(x) == IF x < 0 THEN -x ELSE x
        q == abs(a) \div abs(b)
    IN  IF (a < 0) = (b < 0) THEN q ELSE -q

evalIntegerInfixExpression(operator, left, right) ==
    (CHOOSE ret \in {
        (CHOOSE ret \in {
        CASE operator = "+" -> Integer(leftVal + rightVal)
          [] operator = "-" -> Integer(leftVal - rightVal)
          [] operator = "*" -> Integer(leftVal * rightVal)
          [] operator = "/" -> IF rightVal = 0
                               THEN Panic("runtime error: integer divide by zero")
                               ELSE Integer(GoDiv(leftVal, rightVal))
          [] operator = "<" -> nativeBoolToPyMonkeyBoolean(leftVal < rightVal)
          [] operator = ">" -> nativeBoolToPyMonkeyBoolean(leftVal > rightVal)
          [] operator = "==" -> nativeBoolToPyMonkeyBoolean(leftVal = rightVal)
          [] operator = "!=" -> nativeBoolToPyMonkeyBoolean(leftVal # rightVal)
          [] OTHER -> newError("unknown operator: " \o operator)
          : rightVal \in {right.Value}} : TRUE)
      : leftVal \in {left.Value}} : TRUE)

evalStringInfixExpression(operator, left, right) ==
    (CHOOSE ret \in {
        (CHOOSE ret \in {
        CASE operator = "+" -> String(leftVal \o rightVal)
          [] operator = "==" -> nativeBoolToPyMonkeyBoolean(leftVal = rightVal)
          [] operator = "!=" -> nativeBoolToPyMonkeyBoolean(leftVal # rightVal)
          [] OTHER -> newError("unknown operator: " \o operator)
          : rightVal \in {right.Value}} : TRUE)
      : leftVal \in {left.Value}} : TRUE)

\* evalInfixExpression with the type mismatch case moved ahead of the == and
\* != cases
evalInfixExpressionMismatchFirst(operator, left, right) ==
    IF left = NilObject THEN NilDeref
    ELSE IF left.Type = "INTEGER" /\ right = NilObject THEN NilDeref
    ELSE IF left.Type = "INTEGER" /\ right.Type = "INTEGER"
         THEN evalIntegerInfixExpression(operator, left, right)
    ELSE IF left.Type = "STRING" /\ right = NilObject THEN NilDeref
    ELSE IF left.Type = "STRING" /\ right.Type = "STRING"
         THEN evalStringInfixExpression(operator, left, right)
    ELSE IF right = NilObject THEN NilDeref
    ELSE IF left.Type # right.Type
         THEN newError("type mismatch: " \o left.Type \o " " \o operator
                       \o " " \o right.Type)
    ELSE IF operator = "=="
         THEN nativeBoolToPyMonkeyBoolean(SameObject(left, right))
    ELSE IF operator = "!="
         THEN nativeBoolToPyMonkeyBoolean(~SameObject(left, right))
    ELSE newError("unknown operator: " \o left.Type \o " " \o operator
                  \o " " \o right.Type)

\* the switch evaluates its cases in order; Type() on the nil interface
\* panics
evalInfixExpression(operator, left, right) ==
    IF left = NilObject THEN NilDeref
    ELSE IF left.Type = "INTEGER" /\ right = NilObject THEN NilDeref
    ELSE IF left.Type = "INTEGER" /\ right.Type = "INTEGER"
         THEN evalIntegerInfixExpression(operator, left, right)
    ELSE IF left.Type = "STRING" /\ right = NilObject THEN NilDeref
    ELSE IF left.Type = "STRING" /\ right.Type = "STRING"
         THEN evalStringInfixExpression(operator, left, right)
    ELSE IF operator = "=="
         THEN nativeBoolToPyMonkeyBoolean(SameObject(left, right))
    ELSE IF operator = "!="
         THEN nativeBoolToPyMonkeyBoolean(~SameObject(left, right))
    ELSE IF right = NilObject THEN NilDeref
    ELSE IF left.Type # right.Type
         THEN newError("type mismatch: " \o left.Type \o " " \o operator
                       \o " " \o right.Type)
    ELSE newError("unknown operator: " \o left.Type \o " " \o operator
                  \o " " \o right.Type)

evalBangOperatorExpression(right) ==
    CASE right = TRUE_OBJ  -> FALSE_OBJ
      [] right = FALSE_OBJ -> TRUE_OBJ
      [] right = NULL      -> TRUE_OBJ
      [] OTHER             -> FALSE_OBJ

evalMinusPrefixOperatorExpression(right) ==
    IF right = NilObject THEN NilDeref
    ELSE IF right.Type # "INTEGER"
         THEN newError("unknown operator: -" \o right.Type)
    ELSE Integer(-right.Value)

evalPrefixExpression(operator, right) ==
    CASE operator = "!" -> evalBangOperatorExpression(right)
      [] operator = "-" -> evalMinusPrefixOperatorExpression(right)
      [] OTHER -> IF right = NilObject THEN NilDeref
                  ELSE newError("unknown operator: " \o operator \o right.Type)

\* a truthiness that also takes Integer 0 and the empty String for false
isTruthyZeroFalse(obj) ==
    CASE obj = NULL       -> FALSE
      [] obj = TRUE_OBJ   -> TRUE
      [] obj = FALSE_OBJ  -> FALSE
      [] obj = Integer(0) -> FALSE
      [] obj = String("") -> FALSE
      [] OTHER            -> TRUE

isTruthy(obj) ==
    CASE obj = NULL      -> FALSE
      [] obj = TRUE_OBJ  -> TRUE
      [] obj = FALSE_OBJ -> FALSE
      [] OTHER           -> TRUE

\* evalArrayIndexExpression reporting an index outside the array as an Error
evalArrayIndexExpressionChecked(array, index) ==
    (CHOOSE ret \in {
        (CHOOSE ret \in {
        IF i < 0 \/ i > max THEN newError("index out of range")
        ELSE array.Elements[i + 1]
          : max \in {Len(array.Elements) - 1}} : TRUE)
      : i \in {index.Value}} : TRUE)

evalArrayIndexExpression(array, index) ==
    (CHOOSE ret \in {
        (CHOOSE ret \in {
        IF i < 0 \/ i > max THEN NULL ELSE array.Elements[i + 1]
          : max \in {Len(array.Elements) - 1}} : TRUE)
      : i \in {index.Value}} : TRUE)

\* evalHashIndexExpression yielding the value only to the key object itself
evalHashIndexExpressionSameKey(hash, index) ==
    IF index = NilObject THEN NilDeref
    ELSE IF Inspect(index) \notin DOMAIN hash.Pairs THEN NULL
    ELSE IF hash.Pairs[Inspect(index)].Key # index THEN NULL
    ELSE hash.Pairs[Inspect(index)].Value

evalHashIndexExpression(hash, index) ==
    IF index = NilObject THEN NilDeref
    ELSE IF Inspect(index) \notin DOMAIN hash.Pairs THEN NULL
    ELSE hash.Pairs[Inspect(index)].Value

evalIndexExpression(left, index) ==
    IF left = NilObject THEN NilDeref
    ELSE IF left.Type = "ARRAY" /\ index = NilObject THEN NilDeref
    ELSE IF left.Type = "ARRAY" /\ index.Type = "INTEGER"
         THEN evalArrayIndexExpression(left, index)
    ELSE IF left.Type = "HASH" THEN evalHashIndexExpression(left, index)
    ELSE newError("index operator not supported: " \o left.Type)

\* evalPropertyExpression going on to the methods of the superclass
evalPropertyExpressionInherited(object, property, h) ==
    CASE object.Type = "INSTANCE" ->
            (CHOOSE ret \in {
                IF property \in DOMAIN inst.Properties
                THEN V(inst.Properties[property], h)
                ELSE IF property \in DOMAIN inst.Class.Methods
                THEN (CHOOSE ret \in {
                         V([Type |-> "BOUND_METHOD", id |-> a.id,
                            Method |-> inst.Class.Methods[property],
                            Instance |-> object], a.h)
                       : a \in {Alloc(h)}} : TRUE)
                ELSE IF /\ inst.Class.SuperClass # NilObject
                        /\ property \in DOMAIN inst.Class.SuperClass.Methods
                THEN (CHOOSE ret \in {
                         V([Type |-> "BOUND_METHOD", id |-> a.id,
                            Method |-> inst.Class.SuperClass.Methods[property],
                            Instance |-> object], a.h)
                       : a \in {Alloc(h)}} : TRUE)
                ELSE V(newError("property " \o property \o " not found"), h)
              : inst \in {h.insts[object.ref]}} : TRUE)
      [] object.Type = "HASH" ->
            IF property \in DOMAIN object.Pairs
            THEN V(object.Pairs[property].Value, h) ELSE V(NULL, h)
      [] OTHER ->
            V(newError("property access not supported on " \o GoTypeName(object)), h)

evalPropertyExpression(object, property, h) ==
    CASE object.Type = "INSTANCE" ->
            (CHOOSE ret \in {
                IF property \in DOMAIN inst.Properties
                THEN V(inst.Properties[property], h)
                ELSE IF property \in DOMAIN inst.Class.Methods
                THEN (CHOOSE ret \in {
                         V([Type |-> "BOUND_METHOD", id |-> a.id,
                            Method |-> inst.Class.Methods[property],
                            Instance |-> object], a.h)
                       : a \in {Alloc(h)}} : TRUE)
                ELSE V(newError("property " \o property \o " not found"), h)
              : inst \in {h.insts[object.ref]}} : TRUE)
      [] object.Type = "HASH" ->
            IF property \in DOMAIN object.Pairs
            THEN V(object.Pairs[property].Value, h) ELSE V(NULL, h)
      [] OTHER ->
            V(newError("property access not supported on " \o GoTypeName(object)), h)

evalThisExpression(h, env) ==
    (CHOOSE ret \in {
        IF r.ok THEN r.value ELSE newError("'this' not found in current context")
      : r \in {Get(h, env, "this")}} : TRUE)

evalSuperExpression(h, env) ==
    (CHOOSE ret \in {
        IF r.ok THEN r.value ELSE newError("'super' not found in current context")
      : r \in {Get(h, env, "super")}} : TRUE)

\* evalIdentifier yielding NULL for a name that is not found
evalIdentifierNullOnMiss(node, h, env) ==
    IF node.Value \in builtinNames THEN Builtin(node.Value)
    ELSE (CHOOSE ret \in {
             IF ~r.ok THEN NULL ELSE r.value
           : r \in {Get(h, env, node.Value)}} : TRUE)

\* evalIdentifier looking into the environment before the builtins
evalIdentifierEnvFirst(node, h, env) ==
    (CHOOSE ret \in {
        IF r.ok THEN r.value
        ELSE IF node.Value \in builtinNames THEN Builtin(node.Value)
        ELSE newError("identifier not found: " \o node.Value)
      : r \in {Get(h, env, node.Value)}} : TRUE)

evalIdentifier(node, h, env) ==
    IF node.Value \in builtinNames THEN Builtin(node.Value)
    ELSE (CHOOSE ret \in {
             IF ~r.ok THEN newError("identifier not found: " \o node.Value)
             ELSE r.value
           : r \in {Get(h, env, node.Value)}} : TRUE)

RECURSIVE bindParams(_, _, _, _, _)
bindParams(h, env, params, args, i) ==
    IF i > Len(params) THEN h
    ELSE bindParams(IF i <= Len(args) THEN Set(h, env, params[i], args[i]) ELSE h,
                    env, params, args, i + 1)

\* extendFunctionEnv binding NULL to every parameter that has no argument
extendFunctionEnvNullFill(fn, args, h) ==
    (CHOOSE ret \in {
        [env |-> e.env,
         h |-> bindParams(e.h, e.env, fn.Parameters,
                          [i \in 1..Len(fn.Parameters) |->
                              IF i <= Len(args) THEN args[i] ELSE NULL], 1)]
      : e \in {NewEnclosedEnvironment(h, fn.Env)}} : TRUE)

\* extendFunctionEnv enclosing the newest environment of the heap, which in
\* a chain of calls is the caller's, instead of the captured one
extendFunctionEnvOfCaller(fn, args, h) ==
    (CHOOSE ret \in {
        [env |-> e.env, h |-> bindParams(e.h, e.env, fn.Parameters, args, 1)]
      : e \in {NewEnclosedEnvironment(h, Len(h.envs))}} : TRUE)

\* extendFunctionEnv without a fresh environment: the parameters are bound
\* in the captured environment and the body runs there
extendFunctionEnvInPlace(fn, args, h) ==
    [env |-> fn.Env, h |-> bindParams(h, fn.Env, fn.Parameters, args, 1)]

extendFunctionEnv(fn, args, h) ==
    (CHOOSE ret \in {
        [env |-> e.env, h |-> bindParams(e.h, e.env, fn.Parameters, args, 1)]
      : e \in {NewEnclosedEnvironment(h, fn.Env)}} : TRUE)

\* unwrapReturnValue handing the ReturnValue on
unwrapReturnValueKept(obj) == obj

unwrapReturnValue(obj) ==
    IF obj.Type = "RETURN_VALUE" THEN obj.Value ELSE obj

RECURSIVE printArgs(_, _, _)
\* builtins["print"]: Inspect() on the nil interface panics
printArgs(args, i, h) ==
    IF i > Len(args) THEN V(NULL, h)
    ELSE IF args[i] = NilObject THEN V(NilDeref, h)
    ELSE printArgs(args, i + 1, [h EXCEPT !.out = Append(@, Inspect(args[i]))])

builtinLen(args) ==
    IF Len(args) # 1
    THEN newError("wrong number of arguments. got=" \o ToString(Len(args))
                  \o ", want=1")
    ELSE CASE args[1].Type = "ARRAY"  -> Integer(Len(args[1].Elements))
           [] args[1].Type = "STRING" -> Integer(Len(args[1].Value))
           [] OTHER -> newError("argument to len not supported, got "
                                \o GoTypeName(args[1]))

\* builtins["push"] appending to the array it was given: every binding of
\* that array sees the new element
builtinPushInPlace(args, h) ==
    IF Len(args) # 2
    THEN V(newError("wrong number of arguments. got=" \o ToString(Len(args))
                    \o ", want=2"), h)
    ELSE IF args[1] = NilObject THEN V(NilDeref, h)
    ELSE IF args[1].Type # "ARRAY"
         THEN V(newError("argument to push must be ARRAY, got "
                         \o GoTypeName(args[1])), h)
    ELSE V([args[1] EXCEPT !.Elements = Append(@, args[2])],
           [h EXCEPT !.envs =
               [e \in DOMAIN h.envs |->
                   [h.envs[e] EXCEPT !.store =
                       [name \in DOMAIN h.envs[e].store |->
                           IF h.envs[e].store[name] = args[1]
                           THEN [args[1] EXCEPT !.Elements = Append(@, args[2])]
                           ELSE h.envs[e].store[name]]]]])

builtinPush(args, h) ==
    IF Len(args) # 2
    THEN V(newError("wrong number of arguments. got=" \o ToString(Len(args))
                    \o ", want=2"), h)
    ELSE IF args[1] = NilObject THEN V(NilDeref, h)
    ELSE IF args[1].Type # "ARRAY"
         THEN V(newError("argument to push must be ARRAY, got "
                         \o GoTypeName(args[1])), h)
    ELSE (CHOOSE ret \in {
             V([Type |-> "ARRAY", id |-> a.id,
                Elements |-> Append(args[1].Elements, args[2])], a.h)
           : a \in {Alloc(h)}} : TRUE)

applyBuiltin(fn, args, h) ==
    CASE fn.Name = "print" -> printArgs(args, 1, h)
      [] fn.Name = "len"   -> V(builtinLen(args), h)
      [] fn.Name = "push"  -> builtinPush(args, h)

RECURSIVE Eval(_, _, _), evalProgramLoop(_, _, _, _, _),
          evalBlockLoop(_, _, _, _, _), evalClassStatement(_, _, _),
          evalObjectLoop(_, _, _, _, _), evalAssignmentExpression(_, _, _),
          evalNewExpression(_, _, _), evalIfExpression(_, _, _),
          evalExpressionsLoop(_, _, _, _, _),
          applyFunctionWithThis(_, _, _, _)

\* one iteration of the statement loop of evalProgram: the statement's
\* result, the heap, and whether the loop returns
evalProgramIter(statement, env, h) ==
    (CHOOSE ret \in {
        CASE r.v.Type = "RETURN_VALUE" -> [v |-> r.v.Value, h |-> r.h, stop |-> TRUE]
          [] r.v.Type = "ERROR"        -> [v |-> r.v, h |-> r.h, stop |-> TRUE]
          [] r.v.Type = "PANIC"        -> [v |-> r.v, h |-> r.h, stop |-> TRUE]
          [] OTHER                     -> [v |-> r.v, h |-> r.h, stop |-> FALSE]
      : r \in {Eval(statement, env, h)}} : TRUE)

evalProgramLoop(stmts, i, env, h, res) ==
    IF i > Len(stmts) THEN V(res, h)
    ELSE (CHOOSE ret \in {
             IF r.stop THEN V(r.v, r.h)
             ELSE evalProgramLoop(stmts, i + 1, env, r.h, r.v)
           : r \in {evalProgramIter(stmts[i], env, h)}} : TRUE)

evalProgram(node, env, h) == evalProgramLoop(node.Statements, 1, env, h, NilObject)

evalBlockLoop(stmts, i, env, h, res) ==
    IF i > Len(stmts) THEN V(res, h)
    ELSE (CHOOSE ret \in {
             IF r.v # NilObject /\ r.v.Type \in {"RETURN_VALUE", "ERROR", "PANIC"}
             THEN r
             ELSE evalBlockLoop(stmts, i + 1, env, r.h, r.v)
           : r \in {Eval(stmts[i], env, h)}} : TRUE)

evalBlockStatement(block, env, h) ==
    evalBlockLoop(block.Statements, 1, env, h, NilObject)

\* the result slice, or the one-element slice holding the error
evalExpressionsLoop(exps, i, env, h, res) ==
    IF i > Len(exps) THEN [vs |-> res, h |-> h]
    ELSE (CHOOSE ret \in {
             IF Halts(r.v) THEN [vs |-> <<r.v>>, h |-> r.h]
             ELSE evalExpressionsLoop(exps, i + 1, env, r.h, Append(res, r.v))
           : r \in {Eval(exps[i], env, h)}} : TRUE)

evalExpressions(exps, env, h) == evalExpressionsLoop(exps, 1, env, h, <<>>)

\* the method loop of evalClassStatement
RECURSIVE classMethods(_, _, _, _, _)
classMethods(methods, i, env, h, acc) ==
    IF i > Len(methods) THEN [ms |-> acc, h |-> h]
    ELSE (CHOOSE ret \in {
             (CHOOSE ret \in {
             (CHOOSE ret \in {
             (CHOOSE ret \in {
             (CHOOSE ret \in {
             classMethods(methods, i + 1, env, a.h, (methodName :> f) @@ acc)
               : f \in {[Type |-> "FUNCTION", id |-> a.id, Parameters |-> parameters,
                   Body |-> m.Body, Env |-> env]}} : TRUE)
               : a \in {Alloc(h)}} : TRUE)
               : parameters \in {IF Len(m.Parameters) > 0 THEN Tail(m.Parameters)
                           ELSE m.Parameters}} : TRUE)
               : methodName \in {IF Len(m.Parameters) > 0 THEN m.Parameters[1]
                           ELSE "constructor"}} : TRUE)
           : m \in {methods[i]}} : TRUE)

evalClassStatement(node, env, h) ==
    (CHOOSE ret \in {
        (CHOOSE ret \in {
        IF node.SuperClass # NilNode /\ Halts(sup.v) THEN sup
        ELSE IF node.SuperClass # NilNode /\ sup.v = NilObject THEN V(NilDeref, sup.h)
        ELSE IF node.SuperClass # NilNode /\ sup.v.Type # "CLASS"
        THEN V(newError("superclass must be a class, got " \o GoTypeName(sup.v)), sup.h)
        ELSE (CHOOSE ret \in {
                 (CHOOSE ret \in {
                 V(NULL, Set(ms.h, env, node.Name, class))
                   : class \in {[Type |-> "CLASS", id |-> a.id, Name |-> node.Name,
                           Methods |-> ms.ms, SuperClass |-> sup.v, Env |-> env]}} : TRUE)
               : ms \in {classMethods(node.Methods, 1, env, sup.h, EmptyStore)}} : TRUE)
          : sup \in {IF node.SuperClass # NilNode THEN Eval(node.SuperClass, env, a.h)
               ELSE V(NilObject, a.h)}} : TRUE)
      : a \in {Alloc(h)}} : TRUE)

\* the pairs of the literal are a Go map, ranged over in an order the
\* runtime picks: h.order[n] is the order picked for a literal of n pairs
PairOrder(h, n) ==
    IF n \in DOMAIN h.order THEN h.order[n] ELSE [i \in 1..n |-> i]

evalObjectLoop(ps, i, env, h, pairs) ==
    IF i > Len(ps)
    THEN (CHOOSE ret \in {
             V([Type |-> "HASH", id |-> a.id, Pairs |-> pairs], a.h)
           : a \in {Alloc(h)}} : TRUE)
    ELSE (CHOOSE ret \in {
             (CHOOSE ret \in {
             IF Halts(key.v) THEN key
             ELSE (CHOOSE ret \in {
                      IF Halts(value.v) THEN value
                      ELSE IF key.v = NilObject THEN V(NilDeref, value.h)
                      ELSE evalObjectLoop(ps, i + 1, env, value.h,
                               (Inspect(key.v) :> [Key |-> key.v, Value |-> value.v])
                               @@ pairs)
                    : value \in {Eval(pr[2], env, key.h)}} : TRUE)
               : key \in {Eval(pr[1], env, h)}} : TRUE)
           : pr \in {ps[PairOrder(h, Len(ps))[i]]}} : TRUE)

evalObjectLiteral(node, env, h) == evalObjectLoop(node.Pairs, 1, env, h, EmptyStore)

evalAssignmentExpression(node, env, h) ==
    (CHOOSE ret \in {
        IF Halts(value.v) THEN value
        ELSE CASE node.Left.kind = "Identifier" ->
                    V(value.v, Set(value.h, env, node.Left.Value, value.v))
               [] node.Left.kind = "PropertyExpression" ->
                    (CHOOSE ret \in {
                        IF Halts(object.v) THEN object
                        ELSE IF object.v.Type # "INSTANCE"
                        THEN V(newError("cannot assign to property of non-instance: "
                                        \o GoTypeName(object.v)), object.h)
                        ELSE V(value.v,
                               [object.h EXCEPT !.insts[object.v.ref].Properties =
                                   (node.Left.Property :> value.v) @@ @])
                      : object \in {Eval(node.Left.Object, env, value.h)}} : TRUE)
               [] OTHER ->
                    V(newError("invalid left-hand side of assignment: "
                               \o node.Left.kind), value.h)
      : value \in {Eval(node.Value, env, h)}} : TRUE)

\* an instance built without the copies of the class's methods
copyMethodsNone(methods, names, h, acc) == [props |-> acc, h |-> h]

\* the copies of the class's methods that evalNewExpression puts into the
\* instance's property map
RECURSIVE copyMethods(_, _, _, _)
copyMethods(methods, names, h, acc) ==
    IF names = {} THEN [props |-> acc, h |-> h]
    ELSE (CHOOSE ret \in {
             (CHOOSE ret \in {
             copyMethods(methods, names \ {n}, a.h,
                         (n :> [methods[n] EXCEPT !.id = a.id]) @@ acc)
               : a \in {Alloc(h)}} : TRUE)
           : n \in {CHOOSE x \in names : TRUE}} : TRUE)

evalNewExpression(class, args, h) ==
    IF class = NilObject THEN V(NilDeref, h)
    ELSE IF class.Type # "CLASS"
    THEN V(newError("not a class: " \o GoTypeName(class)), h)
    ELSE
    (CHOOSE ret \in {
        (CHOOSE ret \in {
        (CHOOSE ret \in {
        (CHOOSE ret \in {
        IF "constructor" \in DOMAIN class.Methods
        THEN (CHOOSE ret \in {
                 (CHOOSE ret \in {
                 (CHOOSE ret \in {
                 (CHOOSE ret \in {
                 (CHOOSE ret \in {
                 IF Halts(r.v) THEN r ELSE V(instance, r.h)
                   : r \in {Eval(constructor.Body, e.env, h3)}} : TRUE)
                   : h3 \in {IF class.SuperClass # NilObject
                       THEN Set(h2, e.env, "super", class.SuperClass) ELSE h2}} : TRUE)
                   : h2 \in {Set(e.h, e.env, "this", instance)}} : TRUE)
                   : e \in {extendFunctionEnv(constructor, args, h1)}} : TRUE)
               : constructor \in {class.Methods["constructor"]}} : TRUE)
        ELSE V(instance, h1)
          : h1 \in {[cp.h EXCEPT !.insts = Append(@, [Class |-> class,
                                                Properties |-> cp.props])]}} : TRUE)
          : instance \in {[Type |-> "INSTANCE", ref |-> ref]}} : TRUE)
          : ref \in {Len(h.insts) + 1}} : TRUE)
      : cp \in {copyMethods(class.Methods, DOMAIN class.Methods, h, EmptyStore)}} : TRUE)

evalIfExpression(ie, env, h) ==
    (CHOOSE ret \in {
        IF Halts(condition.v) THEN condition
        ELSE IF isTruthy(condition.v) THEN Eval(ie.Consequence, env, condition.h)
        ELSE IF ie.Alternative # NilNode THEN Eval(ie.Alternative, env, condition.h)
        ELSE V(NULL, condition.h)
      : condition \in {Eval(ie.Condition, env, h)}} : TRUE)

applyFunctionWithThis(fn, args, thisObj, h) ==
    CASE fn.Type = "FUNCTION" ->
            (CHOOSE ret \in {
                (CHOOSE ret \in {
                (CHOOSE ret \in {
                V(unwrapReturnValue(evaluated.v), evaluated.h)
                  : evaluated \in {Eval(fn.Body, e.env, h2)}} : TRUE)
                  : h2 \in {IF thisObj # NilObject THEN Set(e.h, e.env, "this", thisObj)
                      ELSE e.h}} : TRUE)
              : e \in {extendFunctionEnv(fn, args, h)}} : TRUE)
      [] fn.Type = "BOUND_METHOD" ->
            (CHOOSE ret \in {
                (CHOOSE ret \in {
                (CHOOSE ret \in {
                V(unwrapReturnValue(evaluated.v), evaluated.h)
                  : evaluated \in {Eval(fn.Method.Body, e.env, h2)}} : TRUE)
                  : h2 \in {Set(e.h, e.env, "this", fn.Instance)}} : TRUE)
              : e \in {extendFunctionEnv(fn.Method, args, h)}} : TRUE)
      [] fn.Type = "BUILTIN" -> applyBuiltin(fn, args, h)
      [] OTHER -> V(newError("not a function: " \o GoTypeName(fn)), h)

applyFunction(fn, args, h) == applyFunctionWithThis(fn, args, NilObject, h)

Eval(node, env, h) ==
    IF "nilptr" \in DOMAIN node THEN V(NilDeref, h)
    ELSE
    CASE node.kind = "Program" -> evalProgram(node, env, h)
      [] node.kind = "BlockStatement" -> evalBlockStatement(node, env, h)
      [] node.kind = "ExpressionStatement" -> Eval(node.Expression, env, h)
      [] node.kind = "ReturnStatement" ->
            (CHOOSE ret \in {
                (CHOOSE ret \in {
                IF Halts(val.v) THEN val
                ELSE V([Type |-> "RETURN_VALUE", id |-> a.id, Value |-> val.v], a.h)
                  : a \in {Alloc(val.h)}} : TRUE)
              : val \in {Eval(node.ReturnValue, env, h)}} : TRUE)
      [] node.kind = "LetStatement" ->
            (CHOOSE ret \in {
                IF Halts(val.v) THEN val
                ELSE V(NULL, Set(val.h, env, node.Name, val.v))
              : val \in {Eval(node.Value, env, h)}} : TRUE)
      [] node.kind = "ClassStatement" -> evalClassStatement(node, env, h)
      [] node.kind = "IntegerLiteral" -> V(Integer(node.Value), h)
      [] node.kind = "StringLiteral" -> V(String(node.Value), h)
      [] node.kind = "ArrayLiteral" ->
            (CHOOSE ret \in {
                (CHOOSE ret \in {
                IF Len(elements.vs) = 1 /\ Halts(elements.vs[1])
                THEN V(elements.vs[1], elements.h)
                ELSE V([Type |-> "ARRAY", id |-> a.id, Elements |-> elements.vs], a.h)
                  : a \in {Alloc(elements.h)}} : TRUE)
              : elements \in {evalExpressions(node.Elements, env, h)}} : TRUE)
      [] node.kind = "ObjectLiteral" -> evalObjectLiteral(node, env, h)
      [] node.kind = "IndexExpression" ->
            (CHOOSE ret \in {
                IF Halts(left.v) THEN left
                ELSE (CHOOSE ret \in {
                         IF Halts(index.v) THEN index
                         ELSE V(evalIndexExpression(left.v, index.v), index.h)
                       : index \in {Eval(node.Index, env, left.h)}} : TRUE)
              : left \in {Eval(node.Left, env, h)}} : TRUE)
      [] node.kind = "PropertyExpression" ->
            (CHOOSE ret \in {
                IF Halts(object.v) THEN object
                ELSE evalPropertyExpression(object.v, node.Property, object.h)
              : object \in {Eval(node.Object, env, h)}} : TRUE)
      [] node.kind = "AssignmentExpression" -> evalAssignmentExpression(node, env, h)
      [] node.kind = "NewExpression" ->
            (CHOOSE ret \in {
                IF Halts(class.v) THEN class
                ELSE (CHOOSE ret \in {
                         IF Len(args.vs) = 1 /\ Halts(args.vs[1])
                         THEN V(args.vs[1], args.h)
                         ELSE evalNewExpression(class.v, args.vs, args.h)
                       : args \in {evalExpressions(node.Arguments, env, class.h)}} : TRUE)
              : class \in {Eval(node.Class, env, h)}} : TRUE)
      [] node.kind = "ThisExpression" -> V(evalThisExpression(h, env), h)
      [] node.kind = "SuperExpression" -> V(evalSuperExpression(h, env), h)
      [] node.kind = "NullExpression" -> V(NULL, h)
      [] node.kind = "Boolean" -> V(nativeBoolToPyMonkeyBoolean(node.Value), h)
      [] node.kind = "PrefixExpression" ->
            (CHOOSE ret \in {
                IF Halts(right.v) THEN right
                ELSE V(evalPrefixExpression(node.Operator, right.v), right.h)
              : right \in {Eval(node.Right, env, h)}} : TRUE)
      [] node.kind = "InfixExpression" ->
            (CHOOSE ret \in {
                IF Halts(left.v) THEN left
                ELSE (CHOOSE ret \in {
                         IF Halts(right.v) THEN right
                         ELSE V(evalInfixExpression(node.Operator, left.v, right.v),
                                right.h)
                       : right \in {Eval(node.Right, env, left.h)}} : TRUE)
              : left \in {Eval(node.Left, env, h)}} : TRUE)
      [] node.kind = "IfExpression" -> evalIfExpression(node, env, h)
      [] node.kind = "Identifier" -> V(evalIdentifier(node, h, env), h)
      [] node.kind = "FunctionLiteral" ->
            (CHOOSE ret \in {
                V([Type |-> "FUNCTION", id |-> a.id, Parameters |-> node.Parameters,
                   Body |-> node.Body, Env |-> env], a.h)
              : a \in {Alloc(h)}} : TRUE)
      [] node.kind = "CallExpression" ->
            (CHOOSE ret \in {
                IF Halts(function.v) THEN function
                ELSE (CHOOSE ret \in {
                         IF Len(args.vs) = 1 /\ Halts(args.vs[1])
                         THEN V(args.vs[1], args.h)
                         ELSE applyFunction(function.v, args.vs, args.h)
                       : args \in {evalExpressions(node.Arguments, env, function.h)}} : TRUE)
              : function \in {Eval(node.Function, env, h)}} : TRUE)
      [] OTHER -> V(newError("unknown node type: <nil>"), h)


(***************************************************************************)
(* The JavaScript implementation of the same language                      *)
(* (interpreters/javascript-like_javascript): Lexer, AbstractSyntaxTree    *)
(* and Interpreter.  A JavaScript value is a record tagged by t; a thrown  *)
(* exception is a record with ok = FALSE.                                  *)
(***************************************************************************)
JsNumber(n) == [t |-> "number", v |-> n]

JsBoolean(b) == [t |-> "boolean", v |-> b]

null == [t |-> "null"]

undefined == [t |-> "undefined"]

\* the number NaN
NaN == [t |-> "NaN"]

\* a value the model does not compute: a quotient that is not an integer,
\* an infinity, or the string that + makes of a function
Uncomputed == [t |-> "uncomputed"]

Throw(name, message) == [ok |-> FALSE, name |-> name, message |-> message]

KEYWORDS == {"let", "function", "true", "false"}

\* ident.toUpperCase() of a keyword
toUpperCase(ident) ==
    CASE ident = "let" -> "LET" [] ident = "function" -> "FUNCTION"
      [] ident = "true" -> "TRUE" [] ident = "false" -> "FALSE"

symbols ==
    [s \in {"+", "-", "*", "/", "=", "==", "!=", "(", ")", ",", "{", "}", "&&", "||"} |->
        CASE s = "+" -> "PLUS" [] s = "-" -> "MINUS" [] s = "*" -> "MUL"
          [] s = "/" -> "DIV" [] s = "=" -> "ASSIGN" [] s = "==" -> "EQ"
          [] s = "!=" -> "NEQ" [] s = "(" -> "LPAREN" [] s = ")" -> "RPAREN"
          [] s = "," -> "COMMA" [] s = "{" -> "LBRACE" [] s = "}" -> "RBRACE"
          [] s = "&&" -> "AND" [] s = "||" -> "OR"]

\* /\s/.test(char), for the bytes the inputs use
isSpace(char) == char \in {" ", "\t", "\n", "\r"}

RECURSIVE LexerNumber(_, _, _)
\* while (/\d/.test(input[i])) num += advance(), and Number(num); i counts
\* from 0 as in the source
LexerNumber(code, i, num) ==
    IF i < Len(code) /\ isDigit(code[i + 1])
    THEN LexerNumber(code, i + 1, 10 * num + DigitVal(code[i + 1]))
    ELSE [value |-> num, i |-> i]

RECURSIVE LexerIdent(_, _, _)
\* while (/[a-zA-Z0-9_]/.test(input[i])) ident += advance().  Past the end
\* input[i] is undefined, which test() reads as the text "undefined": the
\* test succeeds and the loop never leaves (left = FALSE); ident grows
\* until the engine refuses the string.
LexerIdent(code, i, ident) ==
    IF i >= Len(code) THEN [value |-> Str(ident), i |-> i, left |-> FALSE]
    ELSE IF isLetter(code[i + 1]) \/ isDigit(code[i + 1])
         THEN LexerIdent(code, i + 1, Append(ident, code[i + 1]))
         ELSE [value |-> Str(ident), i |-> i, left |-> TRUE]

\* input.slice(i, i + 2)
twoCharAt(code, i) ==
    Str(SubSeq(code, i + 1, IF i + 2 <= Len(code) THEN i + 2 ELSE Len(code)))

RECURSIVE LexerSpace(_, _)
\* the turns of the while loop of Lexer that skip white space and ';': the
\* index of the next character that starts a token
LexerSpace(code, i) ==
    IF i < Len(code) /\ (isSpace(code[i + 1]) \/ code[i + 1] = ";")
    THEN LexerSpace(code, i + 1) ELSE i

\* the turn of the while loop of Lexer that makes a token, the character
\* at i being neither white space nor ';'
LexerToken(code, i) ==
    IF isDigit(code[i + 1])
    THEN (CHOOSE ret \in {
             [ok |-> TRUE, i |-> num.i,
              token |-> [type |-> "NUMBER", value |-> JsNumber(num.value)]]
           : num \in {LexerNumber(code, i, 0)}} : TRUE)
    ELSE IF isLetter(code[i + 1])
    THEN (CHOOSE ret \in {
             IF ~ident.left
             THEN Throw("RangeError", "Invalid string length")
             ELSE [ok |-> TRUE, i |-> ident.i,
                   token |-> [type |-> IF ident.value \in KEYWORDS
                                       THEN toUpperCase(ident.value)
                                       ELSE "IDENT",
                              value |-> ident.value]]
           : ident \in {LexerIdent(code, i, <<>>)}} : TRUE)
    ELSE IF twoCharAt(code, i) \in DOMAIN symbols
    THEN [ok |-> TRUE, i |-> i + 2, token |-> [type |-> symbols[twoCharAt(code, i)]]]
    ELSE IF code[i + 1] \in DOMAIN symbols
    THEN [ok |-> TRUE, i |-> i + 1, token |-> [type |-> symbols[code[i + 1]]]]
    ELSE Throw("CodeError", "Unexpected character '" \o code[i + 1] \o "'")

RECURSIVE LexerLoop(_, _, _)
\* the while loop of Lexer
LexerLoop(code, i, tokens) ==
    IF ~(LexerSpace(code, i) < Len(code)) THEN [ok |-> TRUE, tokens |-> tokens]
    ELSE (CHOOSE ret \in {
             IF ~next.ok THEN next
             ELSE LexerLoop(code, next.i, Append(tokens, next.token))
           : next \in {LexerToken(code, LexerSpace(code, i))}} : TRUE)

Lexer(code) == LexerLoop(code, 0, <<>>)

\* what a parsing function returns: its node and the parser's current
Parsed(node, current) == [ok |-> TRUE, node |-> node, current |-> current]

\* peek()?.type, the type "undefined" past the last token
peekType(tokens, current) ==
    IF current < Len(tokens) THEN tokens[current + 1].type ELSE "undefined"

consume(tokens, current, type) ==
    IF peekType(tokens, current) # type
    THEN Throw("CodeError", "Expected " \o type)
    ELSE Parsed(tokens[current + 1], current + 1)

RECURSIVE parseAssignment(_, _), parseLogic(_, _), parseLogicWhile(_, _),
          parseEquality(_, _), parseEqualityWhile(_, _), parseTerm(_, _),
          parseTermWhile(_, _), parseFactor(_, _), parseFactorWhile(_, _),
          parseUnary(_, _), parsePrimary(_, _), parseArguments(_, _, _)

parseExpressionJs(tokens, current) == parseAssignment(tokens, current)

parseAssignment(tokens, current) ==
    (CHOOSE ret \in {
        IF ~expr.ok THEN expr
        ELSE IF peekType(tokens, expr.current) = "ASSIGN"
        THEN IF expr.node.type # "Variable"
             THEN Throw("CodeError", "Invalid left-hand assignment")
             ELSE (CHOOSE ret \in {
                      IF ~value.ok THEN value
                      ELSE Parsed([type |-> "Assignment", name |-> expr.node.name,
                                   value |-> value.node], value.current)
                    : value \in {parseExpressionJs(tokens, expr.current + 1)}} : TRUE)
        ELSE expr
      : expr \in {parseLogic(tokens, current)}} : TRUE)

\* parseLogic with the operands of an arithmetic level
parseLogicOfTerms(tokens, current) == parseTerm(tokens, current)

parseLogic(tokens, current) ==
    (CHOOSE ret \in {
        IF ~node.ok THEN node ELSE parseLogicWhile(tokens, node)
      : node \in {parseEquality(tokens, current)}} : TRUE)

\* the while loop of parseLogic, node being the tree and position so far
parseLogicWhile(tokens, node) ==
    IF peekType(tokens, node.current) \in {"AND", "OR"}
    THEN (CHOOSE ret \in {
             IF ~right.ok THEN right
             ELSE parseLogicWhile(tokens,
                      Parsed([type |-> peekType(tokens, node.current),
                              left |-> node.node, right |-> right.node],
                             right.current))
           : right \in {parseEquality(tokens, node.current + 1)}} : TRUE)
    ELSE node

parseEquality(tokens, current) ==
    (CHOOSE ret \in {
        IF ~node.ok THEN node ELSE parseEqualityWhile(tokens, node)
      : node \in {parseTerm(tokens, current)}} : TRUE)

parseEqualityWhile(tokens, node) ==
    IF peekType(tokens, node.current) \in {"EQ", "NEQ"}
    THEN (CHOOSE ret \in {
             IF ~right.ok THEN right
             ELSE parseEqualityWhile(tokens,
                      Parsed([type |-> peekType(tokens, node.current),
                              left |-> node.node, right |-> right.node],
                             right.current))
           : right \in {parseTerm(tokens, node.current + 1)}} : TRUE)
    ELSE node

parseTerm(tokens, current) ==
    (CHOOSE ret \in {
        IF ~node.ok THEN node ELSE parseTermWhile(tokens, node)
      : node \in {parseFactor(tokens, current)}} : TRUE)

parseTermWhile(tokens, node) ==
    IF peekType(tokens, node.current) \in {"PLUS", "MINUS"}
    THEN (CHOOSE ret \in {
             IF ~right.ok THEN right
             ELSE parseTermWhile(tokens,
                      Parsed([type |-> peekType(tokens, node.current),
                              left |-> node.node, right |-> right.node],
                             right.current))
           : right \in {parseFactor(tokens, node.current + 1)}} : TRUE)
    ELSE node

parseFactor(tokens, current) ==
    (CHOOSE ret \in {
        IF ~node.ok THEN node ELSE parseFactorWhile(tokens, node)
      : node \in {parseUnary(tokens, current)}} : TRUE)

parseFactorWhile(tokens, node) ==
    IF peekType(tokens, node.current) \in {"MUL", "DIV"}
    THEN (CHOOSE ret \in {
             IF ~right.ok THEN right
             ELSE parseFactorWhile(tokens,
                      Parsed([type |-> peekType(tokens, node.current),
                              left |-> node.node, right |-> right.node],
                             right.current))
           : right \in {parseUnary(tokens, node.current + 1)}} : TRUE)
    ELSE node

parseUnary(tokens, current) ==
    IF peekType(tokens, current) = "MINUS"
    THEN (CHOOSE ret \in {
             IF ~value.ok THEN value
             ELSE Parsed([type |-> "NEGATE", value |-> value.node], value.current)
           : value \in {parsePrimary(tokens, current + 1)}} : TRUE)
    ELSE parsePrimary(tokens, current)

\* the while loop of a call's arguments, current being past the LPAREN
parseArguments(tokens, current, args) ==
    IF peekType(tokens, current) = "RPAREN"
    THEN [ok |-> TRUE, args |-> args, current |-> current]
    ELSE (CHOOSE ret \in {
             IF ~arg.ok THEN arg
             ELSE parseArguments(tokens,
                      IF peekType(tokens, arg.current) = "COMMA"
                      THEN arg.current + 1 ELSE arg.current,
                      Append(args, arg.node))
           : arg \in {parseExpressionJs(tokens, current)}} : TRUE)

parsePrimary(tokens, current) ==
    IF ~(current < Len(tokens))
    THEN Throw("TypeError", "Cannot read properties of undefined (reading 'type')")
    ELSE (CHOOSE ret \in {
        IF token.type = "NUMBER"
        THEN Parsed([type |-> "Literal", value |-> token.value], current + 1)
        ELSE IF token.type \in {"TRUE", "FALSE"}
        THEN Parsed([type |-> "Literal", value |-> JsBoolean(token.type = "TRUE")],
                    current + 1)
        ELSE IF token.type = "IDENT"
        THEN IF peekType(tokens, current + 1) = "LPAREN"
             THEN (CHOOSE ret \in {
                      IF ~args.ok THEN args
                      ELSE (CHOOSE ret \in {
                               IF ~rparen.ok THEN rparen
                               ELSE Parsed([type |-> "Call", name |-> token.value,
                                            args |-> args.args], rparen.current)
                             : rparen \in {consume(tokens, args.current, "RPAREN")}} : TRUE)
                    : args \in {parseArguments(tokens, current + 2, <<>>)}} : TRUE)
             ELSE Parsed([type |-> "Variable", name |-> token.value], current + 1)
        ELSE IF token.type = "LPAREN"
        THEN (CHOOSE ret \in {
                 IF ~expr.ok THEN expr
                 ELSE (CHOOSE ret \in {
                          IF ~rparen.ok THEN rparen
                          ELSE Parsed(expr.node, rparen.current)
                        : rparen \in {consume(tokens, expr.current, "RPAREN")}} : TRUE)
               : expr \in {parseExpressionJs(tokens, current + 1)}} : TRUE)
        ELSE Throw("CodeError", "Unexpected token " \o token.type)
           : token \in {tokens[current + 1]}} : TRUE)

parseLet(tokens, current) ==
    (CHOOSE ret \in {
    IF ~let.ok THEN let
    ELSE (CHOOSE ret \in {
    IF ~name.ok THEN name
    ELSE (CHOOSE ret \in {
    IF ~assign.ok THEN assign
    ELSE (CHOOSE ret \in {
    IF ~value.ok THEN value
    ELSE Parsed([type |-> "Let", name |-> name.node.value, value |-> value.node],
                value.current)
           : value \in {parseExpressionJs(tokens, assign.current)}} : TRUE)
           : assign \in {consume(tokens, name.current, "ASSIGN")}} : TRUE)
           : name \in {consume(tokens, let.current, "IDENT")}} : TRUE)
      : let \in {consume(tokens, current, "LET")}} : TRUE)

RECURSIVE parseParams(_, _, _)
\* the while loop of a definition's parameters, current being past the LPAREN
parseParams(tokens, current, params) ==
    IF peekType(tokens, current) = "RPAREN"
    THEN [ok |-> TRUE, params |-> params, current |-> current]
    ELSE (CHOOSE ret \in {
             IF ~param.ok THEN param
             ELSE parseParams(tokens,
                      IF peekType(tokens, param.current) = "COMMA"
                      THEN param.current + 1 ELSE param.current,
                      Append(params, param.node.value))
           : param \in {consume(tokens, current, "IDENT")}} : TRUE)

parseFunctionDef(tokens, current) ==
    (CHOOSE ret \in {
    IF ~function.ok THEN function
    ELSE (CHOOSE ret \in {
    IF ~name.ok THEN name
    ELSE (CHOOSE ret \in {
    IF ~lparen.ok THEN lparen
    ELSE (CHOOSE ret \in {
    IF ~params.ok THEN params
    ELSE (CHOOSE ret \in {
    IF ~rparen.ok THEN rparen
    ELSE (CHOOSE ret \in {
    IF ~assign.ok THEN assign
    ELSE (CHOOSE ret \in {
    IF ~body.ok THEN body
    ELSE Parsed([type |-> "Function", name |-> name.node.value,
                 params |-> params.params, body |-> body.node],
                body.current)
           : body \in {parseExpressionJs(tokens, assign.current)}} : TRUE)
           : assign \in {consume(tokens, rparen.current, "ASSIGN")}} : TRUE)
           : rparen \in {consume(tokens, params.current, "RPAREN")}} : TRUE)
           : params \in {parseParams(tokens, lparen.current, <<>>)}} : TRUE)
           : lparen \in {consume(tokens, name.current, "LPAREN")}} : TRUE)
           : name \in {consume(tokens, function.current, "IDENT")}} : TRUE)
      : function \in {consume(tokens, current, "FUNCTION")}} : TRUE)

parseTopLevel(tokens, current) ==
    IF peekType(tokens, current) = "LET" THEN parseLet(tokens, current)
    ELSE IF peekType(tokens, current) = "FUNCTION"
    THEN parseFunctionDef(tokens, current)
    ELSE parseExpressionJs(tokens, current)

RECURSIVE AbstractSyntaxTreeLoop(_, _, _)
\* while (current < tokens.length) program.push(parseTopLevel())
AbstractSyntaxTreeLoop(tokens, current, body) ==
    IF ~(current < Len(tokens)) THEN [ok |-> TRUE, program |-> body]
    ELSE (CHOOSE ret \in {
             IF ~stmt.ok THEN stmt
             ELSE AbstractSyntaxTreeLoop(tokens, stmt.current,
                                         Append(body, stmt.node))
           : stmt \in {parseTopLevel(tokens, current)}} : TRUE)

AbstractSyntaxTree(tokens) == AbstractSyntaxTreeLoop(tokens, 0, <<>>)

\* what evalNode returns: its value and the environments, h[e] being the
\* object of environment e and h[1] the global one
Returned(v, h) == [ok |-> TRUE, v |-> v, h |-> h]

\* env[name] = v
SetProperty(h, env, name, v) ==
    [h EXCEPT ![env] = [n \in DOMAIN h[env] \cup {name} |->
                            IF n = name THEN v ELSE h[env][n]]]

\* env[name], undefined where env has no such property
GetProperty(h, env, name) ==
    IF name \in DOMAIN h[env] THEN h[env][name] ELSE undefined

\* the number an operand of -, * and / becomes
ToNumber(v) ==
    CASE v.t = "number" -> v
      [] v.t = "boolean" -> JsNumber(IF v.v THEN 1 ELSE 0)
      [] v.t = "null" -> JsNumber(0)
      [] v.t \in {"undefined", "NaN", "function"} -> NaN
      [] OTHER -> Uncomputed

\* left op right for the arithmetic operators
Arithmetic(op, left, right) ==
    IF op = "PLUS" /\ "function" \in {left.t, right.t} THEN Uncomputed
    ELSE (CHOOSE ret \in {
             (CHOOSE ret \in {
        IF Uncomputed \in {a, b} THEN Uncomputed
        ELSE IF NaN \in {a, b} THEN NaN
        ELSE CASE op = "PLUS" -> JsNumber(a.v + b.v)
               [] op = "MINUS" -> JsNumber(a.v - b.v)
               [] op = "MUL" -> JsNumber(a.v * b.v)
               [] op = "DIV" ->
                    IF b.v = 0 THEN (IF a.v = 0 THEN NaN ELSE Uncomputed)
                    ELSE IF a.v % b.v = 0 THEN JsNumber(a.v \div b.v)
                    ELSE Uncomputed
   : b \in {ToNumber(right)}} : TRUE)
           : a \in {ToNumber(left)}} : TRUE)

\* left === right
StrictEquals(left, right) == left.t = right.t /\ left.t # "NaN" /\ left = right

\* whether && and || take v for true
Truthy(v) ==
    CASE v.t = "boolean" -> v.v
      [] v.t = "number" -> v.v # 0
      [] v.t \in {"null", "undefined", "NaN"} -> FALSE
      [] OTHER -> TRUE

RECURSIVE evalNode(_, _, _), evalArgs(_, _, _, _), callFunction(_, _, _)

\* node.args.map((arg) => evalNode(arg, env))
evalArgs(args, env, h, argVals) ==
    IF Len(argVals) = Len(args) THEN [ok |-> TRUE, argVals |-> argVals, h |-> h]
    ELSE (CHOOSE ret \in {
             IF ~arg.ok THEN arg
             ELSE evalArgs(args, env, arg.h, Append(argVals, arg.v))
           : arg \in {evalNode(args[Len(argVals) + 1], env, h)}} : TRUE)

\* the closure that the 'Function' case stores, called with args: localEnv
\* is a copy of the defining environment as it is now
callFunction(fn, args, h) ==
    (CHOOSE ret \in {
        evalNode(fn.body, Len(h2), h2)
      : h2 \in {Append(h, [n \in DOMAIN h[fn.env] \cup
                          {fn.params[i] : i \in 1..Len(fn.params)} |->
                       IF \E i \in 1..Len(fn.params) : fn.params[i] = n
                       THEN (CHOOSE ret \in {
                                IF i <= Len(args) THEN args[i]
                                            ELSE undefined
                              : i \in {CHOOSE i \in 1..Len(fn.params) :
                                     /\ fn.params[i] = n
                                     /\ \A j \in (i + 1)..Len(fn.params) :
                                            fn.params[j] # n}} : TRUE)
                       ELSE h[fn.env][n]])}} : TRUE)

evalNode(node, env, h) ==
    CASE node.type = "Literal" -> Returned(node.value, h)
      [] node.type = "Variable" ->
            IF node.name \notin DOMAIN h[env]
            THEN Throw("Error", "Undefined variable: " \o node.name)
            ELSE Returned(h[env][node.name], h)
      [] node.type = "Assignment" ->
            (CHOOSE ret \in {
                IF ~value.ok THEN value
                ELSE Returned(value.v, SetProperty(value.h, env, node.name, value.v))
              : value \in {evalNode(node.value, env, h)}} : TRUE)
      [] node.type = "Let" ->
            (CHOOSE ret \in {
                IF ~value.ok THEN value
                ELSE Returned(null, SetProperty(value.h, env, node.name, value.v))
              : value \in {evalNode(node.value, env, h)}} : TRUE)
      [] node.type \in {"PLUS", "MINUS", "MUL", "DIV", "EQ", "NEQ"} ->
            (CHOOSE ret \in {
                IF ~left.ok THEN left
                ELSE (CHOOSE ret \in {
                         IF ~right.ok THEN right
                         ELSE Returned(
                                  CASE node.type = "EQ" ->
                                           JsBoolean(StrictEquals(left.v, right.v))
                                    [] node.type = "NEQ" ->
                                           JsBoolean(~StrictEquals(left.v, right.v))
                                    [] OTHER ->
                                           Arithmetic(node.type, left.v, right.v),
                                  right.h)
                       : right \in {evalNode(node.right, env, left.h)}} : TRUE)
              : left \in {evalNode(node.left, env, h)}} : TRUE)
      [] node.type = "NEGATE" ->
            (CHOOSE ret \in {
                IF ~value.ok THEN value
                ELSE Returned(Arithmetic("MINUS", JsNumber(0), value.v), value.h)
              : value \in {evalNode(node.value, env, h)}} : TRUE)
      [] node.type = "AND" ->
            (CHOOSE ret \in {
                IF ~left.ok \/ ~Truthy(left.v) THEN left
                ELSE evalNode(node.right, env, left.h)
              : left \in {evalNode(node.left, env, h)}} : TRUE)
      [] node.type = "OR" ->
            (CHOOSE ret \in {
                IF ~left.ok \/ Truthy(left.v) THEN left
                ELSE evalNode(node.right, env, left.h)
              : left \in {evalNode(node.left, env, h)}} : TRUE)
      [] node.type = "Function" ->
            Returned(null, SetProperty(h, env, node.name,
                                       [t |-> "function", params |-> node.params,
                                        body |-> node.body, env |-> env]))
      [] node.type = "Call" ->
            (CHOOSE ret \in {
                IF fn.t # "function"
                THEN Throw("Error", "Not a function: " \o node.name)
                ELSE (CHOOSE ret \in {
                         IF ~argVals.ok THEN argVals
                         ELSE callFunction(fn, argVals.argVals, argVals.h)
                       : argVals \in {evalArgs(node.args, env, h, <<>>)}} : TRUE)
              : fn \in {GetProperty(h, env, node.name)}} : TRUE)
      [] OTHER -> Returned(null, h)

(***************************************************************************)
(* The templating language (aoi.js-like): Lexer.tokenize makes tokens of   *)
(* $functions and text, AST.evaluate parses them into nodes and walks the  *)
(* nodes.  A string is a sequence of characters, a thrown CodeError a      *)
(* record with ok = FALSE.  The line and column of a token, which only the *)
(* text of an error uses, and the console output of $log are left out.     *)
(***************************************************************************)
LowerLetters ==
    <<"a","b","c","d","e","f","g","h","i","j","k","l","m",
      "n","o","p","q","r","s","t","u","v","w","x","y","z">>

UpperLetters ==
    <<"A","B","C","D","E","F","G","H","I","J","K","L","M",
      "N","O","P","Q","R","S","T","U","V","W","X","Y","Z">>

\* s.toLowerCase()
toLowerCase(s) ==
    [i \in 1..Len(s) |->
        IF \E k \in 1..26 : UpperLetters[k] = s[i]
        THEN LowerLetters[CHOOSE k \in 1..26 : UpperLetters[k] = s[i]]
        ELSE s[i]]

RECURSIVE trimStart(_), trimEnd(_)
trimStart(s) == IF s # <<>> /\ isSpace(Head(s)) THEN trimStart(Tail(s)) ELSE s

trimEnd(s) ==
    IF s # <<>> /\ isSpace(s[Len(s)]) THEN trimEnd(SubSeq(s, 1, Len(s) - 1)) ELSE s

\* s.trim()
trim(s) == trimEnd(trimStart(s))

RECURSIVE join(_, _)
\* strings.join(separator)
join(strings, separator) ==
    IF strings = <<>> THEN <<>>
    ELSE IF Len(strings) = 1 THEN strings[1]
    ELSE strings[1] \o separator \o join(Tail(strings), separator)

\* the functions of ShouwClient: whether they take brackets, which of
\* their parameters are required, and whether they have code
functions ==
    [name \in {"$if", "$elseif", "$else", "$endif", "$log", "$uwufy"} |->
        [name |-> name,
         brackets |-> name \in {"$if", "$elseif", "$log", "$uwufy"},
         params |-> IF name \in {"$else", "$endif"} THEN <<>>
                    ELSE <<[required |-> TRUE]>>,
         code |-> name \in {"$log", "$uwufy"}]]

\* message.replace(/[rl]/g, 'w').replace(/[RL]/g, 'W')
uwufy(message) ==
    [i \in 1..Len(message) |->
        IF message[i] \in {"r", "l"} THEN "w"
        ELSE IF message[i] \in {"R", "L"} THEN "W" ELSE message[i]]

\* functionData.code(args)
FunctionCode(name, args) ==
    IF name = "$uwufy" THEN uwufy(args[1]) ELSE <<>>

\* CheckCondition of shouw.js, on the conditions that the inputs use
CheckCondition(condition) ==
    Str(condition) \in {"true", "1==1", "(meow==meow)&&true"}

Token(type, name, args, brackets) ==
    [type |-> type, name |-> name, args |-> args, brackets |-> brackets]

\* this.code[this.index + offset] || ''
peek(code, index, offset) ==
    IF index + offset < Len(code) THEN code[index + offset + 1] ELSE ""

RECURSIVE tokenizeKeyword(_, _, _)
\* while (/[a-zA-Z0-9\-_]/.test(this.peek())) current += this.advance()
tokenizeKeyword(code, index, current) ==
    IF index < Len(code) /\ (isLetter(code[index + 1]) \/ isDigit(code[index + 1])
                              \/ code[index + 1] = "-")
    THEN tokenizeKeyword(code, index + 1, Append(current, code[index + 1]))
    ELSE [current |-> current, index |-> index]

RECURSIVE extractArgsWhile(_, _, _, _, _)
\* the while loop of extractArgs and what follows it
extractArgsWhile(code, index, args, current, depth) ==
    IF ~(index < Len(code))
    THEN [args |-> IF Len(current) > 0 THEN Append(args, trim(current)) ELSE args,
          hasClose |-> FALSE, index |-> index]
    ELSE IF code[index + 1] = "]" /\ depth - 1 = 0
    THEN [args |-> Append(args, trim(current)), hasClose |-> TRUE, index |-> index + 1]
    ELSE IF code[index + 1] = ";" /\ depth = 1
    THEN extractArgsWhile(code, index + 1, Append(args, trim(current)), <<>>, depth)
    ELSE extractArgsWhile(code, index + 1, args, Append(current, code[index + 1]),
                          CASE code[index + 1] = "[" -> depth + 1
                            [] code[index + 1] = "]" -> depth - 1
                            [] OTHER -> depth)

extractArgs(code, index) == extractArgsWhile(code, index, <<>>, <<>>, 1)

RECURSIVE mergeTokensFor(_, _, _, _)
\* the for loop of mergeTokens and what follows it
mergeTokensFor(tokens, i, mergedTokens, buffer) ==
    IF ~(i < Len(tokens))
    THEN IF Len(buffer) > 0
         THEN Append(mergedTokens, Token("TEXT", buffer, <<>>, FALSE))
         ELSE mergedTokens
    ELSE IF tokens[i + 1].type = "TEXT"
    THEN mergeTokensFor(tokens, i + 1, mergedTokens, buffer \o tokens[i + 1].name)
    ELSE mergeTokensFor(tokens, i + 1,
             Append(IF Len(buffer) > 0
                    THEN Append(mergedTokens, Token("TEXT", buffer, <<>>, FALSE))
                    ELSE mergedTokens, tokens[i + 1]),
             <<>>)

mergeTokens(tokens) == mergeTokensFor(tokens, 0, <<>>, <<>>)

\* the switch on keyword.toLowerCase()
tokenType(keyword) ==
    CASE Str(toLowerCase(keyword)) = "if" -> "IF"
      [] Str(toLowerCase(keyword)) = "elseif" -> "ELSEIF"
      [] Str(toLowerCase(keyword)) = "else" -> "ELSE"
      [] Str(toLowerCase(keyword)) = "endif" -> "ENDIF"
      [] OTHER -> "FUNCTION"

RECURSIVE blockCommentWhile(_, _)
\* while (!(this.peek() === '*' && this.peek(1) === '/') &&
\*        this.index < this.code.length) this.advance()
blockCommentWhile(code, index) ==
    IF ~(peek(code, index, 0) = "*" /\ peek(code, index, 1) = "/") /\ index < Len(code)
    THEN blockCommentWhile(code, index + 1) ELSE index

\* code.endsWith('*/')
endsWithClose(code) ==
    Len(code) >= 2 /\ code[Len(code) - 1] = "*" /\ code[Len(code)] = "/"

\* if (this.index >= this.code.length && !this.code.endsWith('*/')) throw
blockCommentEnds(code, index) == index >= Len(code) /\ ~endsWithClose(code)

RECURSIVE lineCommentWhile(_, _)
\* while (this.peek() !== '\n' && this.index < this.code.length) this.advance()
lineCommentWhile(code, index) ==
    IF peek(code, index, 0) # "\n" /\ index < Len(code)
    THEN lineCommentWhile(code, index + 1) ELSE index

RECURSIVE tokenizeText(_, _)
\* the turns of the while loop of tokenize that follow a character of text
\* and make text of one character each: the index of the next '$' or '/'
tokenizeText(code, index) ==
    IF index < Len(code) /\ code[index + 1] \notin {"$", "/"}
    THEN tokenizeText(code, index + 1) ELSE index

RECURSIVE tokenizeWhile(_, _, _), tokenizeFunction(_, _, _), tokenizeArguments(_, _, _),
          Interpreter(_), evaluate(_), parse(_, _, _), parseConditional(_, _, _),
          readBlock(_, _, _), walk(_)

\* the for loop over Arguments of a known function: the missing-argument
\* check, and each argument replaced by what Interpreter makes of it (the
\* parameters of ShouwClient are all strings)
tokenizeArguments(functionData, Arguments, i) ==
    IF ~(i < Len(Arguments)) THEN [ok |-> TRUE, args |-> Arguments]
    ELSE IF Arguments[i + 1] = <<>> /\ i < Len(functionData.params)
            /\ functionData.params[i + 1].required
    THEN Throw("CodeError", "Missing argument for " \o functionData.name)
    ELSE (CHOOSE ret \in {
             IF ~arg.ok THEN arg
             ELSE tokenizeArguments(functionData,
                                    [Arguments EXCEPT ![i + 1] = arg.result], i + 1)
           : arg \in {Interpreter(Arguments[i + 1])}} : TRUE)

\* the branch of tokenize for '$', index being past the '$'
tokenizeFunction(code, index, tokens) ==
    (CHOOSE ret \in {
    (CHOOSE ret \in {
    (CHOOSE ret \in {
    (CHOOSE ret \in {
        IF name \notin DOMAIN functions
        THEN IF Len(extracted.args) > 0
             THEN (CHOOSE ret \in {
                      IF ~inner.ok THEN inner
                      ELSE tokenizeWhile(code, extracted.index,
                               Append(tokens,
                                   Token("TEXT",
                                         <<"$">> \o keyword.current \o <<"[">>
                                             \o inner.result
                                             \o (IF extracted.hasClose THEN <<"]">>
                                                 ELSE <<>>),
                                         <<>>, FALSE)))
                    : inner \in {Interpreter(join(extracted.args, <<";">>))}} : TRUE)
             ELSE tokenizeWhile(code, extracted.index,
                      Append(tokens, Token("TEXT", <<"$">> \o keyword.current,
                                           <<>>, FALSE)))
        ELSE IF (~brackets \/ ~extracted.hasClose) /\ functions[name].brackets
        THEN Throw("CodeError", "Missing brackets for " \o name)
        ELSE (CHOOSE ret \in {
                 IF ~done.ok THEN done
                 ELSE tokenizeWhile(code, extracted.index,
                          Append(tokens, Token(tokenType(keyword.current),
                                               keyword.current, done.args,
                                               brackets)))
               : done \in {tokenizeArguments(functions[name], extracted.args, 0)}} : TRUE)
      : name \in {"$" \o Str(toLowerCase(keyword.current))}} : TRUE)
      : extracted \in {IF brackets THEN extractArgs(code, keyword.index + 1)
         ELSE [args |-> <<>>, hasClose |-> FALSE, index |-> keyword.index]}} : TRUE)
      : brackets \in {peek(code, keyword.index, 0) = "["}} : TRUE)
      : keyword \in {tokenizeKeyword(code, index, <<>>)}} : TRUE)

\* the while loop of tokenize
tokenizeWhile(code, index, tokens) ==
    IF ~(index < Len(code)) THEN [ok |-> TRUE, tokens |-> tokens]
    ELSE (CHOOSE ret \in {
        IF char = "$" THEN tokenizeFunction(code, index + 1, tokens)
        ELSE IF char = "/" /\ peek(code, index + 1, 0) = "/"
        THEN tokenizeWhile(code, lineCommentWhile(code, index + 2), tokens)
        ELSE IF char = "/" /\ peek(code, index + 1, 0) = "*"
        THEN (CHOOSE ret \in {
                 IF blockCommentEnds(code, closing)
                 THEN Throw("CodeError", "Unexpected end of input")
                 ELSE tokenizeWhile(code, closing + 2, tokens)
               : closing \in {blockCommentWhile(code, index + 2)}} : TRUE)
        ELSE (CHOOSE ret \in {
                 tokenizeWhile(code, next,
                     tokens \o [i \in 1..(next - index) |->
                                   Token("TEXT", <<code[index + i]>>, <<>>, FALSE)])
               : next \in {tokenizeText(code, index + 1)}} : TRUE)
           : char \in {code[index + 1]}} : TRUE)

tokenize(code) ==
    (CHOOSE ret \in {
        IF ~lexed.ok THEN lexed
        ELSE [ok |-> TRUE,
              tokens |-> mergeTokens(Append(lexed.tokens,
                                            Token("EOF", <<"E","O","F">>, <<>>, FALSE)))]
      : lexed \in {tokenizeWhile(code, 0, <<>>)}} : TRUE)

isEndifCountEquals(tokens) ==
    Cardinality({i \in 1..Len(tokens) : tokens[i].type = "ENDIF"})
        = Cardinality({i \in 1..Len(tokens) : tokens[i].type = "IF"})

\* the node of a FUNCTION or a TEXT token
NodeOf(token) ==
    IF token.type = "FUNCTION"
    THEN [type |-> "FUNCTION", value |-> token.name, args |-> token.args]
    ELSE [type |-> "TEXT", value |-> token.name]

\* readBlock of parseConditional
readBlock(tokens, index, body) ==
    IF ~(index < Len(tokens)) \/ tokens[index + 1].type \in {"ELSEIF", "ELSE", "ENDIF"}
    THEN [ok |-> TRUE, body |-> body, index |-> index]
    ELSE IF tokens[index + 1].type = "IF"
    THEN (CHOOSE ret \in {
             IF ~inner.ok THEN inner
             ELSE readBlock(tokens, inner.index, Append(body, inner.node))
           : inner \in {parseConditional(tokens, index, <<>>)}} : TRUE)
    ELSE IF tokens[index + 1].type \in {"FUNCTION", "TEXT"}
    THEN readBlock(tokens, index + 1, Append(body, NodeOf(tokens[index + 1])))
    ELSE readBlock(tokens, index + 1, body)

\* the while loop of parseConditional and what follows it
parseConditional(tokens, index, branches) ==
    IF ~(index < Len(tokens))
    THEN Throw("CodeError", "Missing $endif for $if[" \o Str(branches[1].condition) \o "]")
    ELSE IF tokens[index + 1].type \in {"IF", "ELSEIF", "ELSE"}
    THEN (CHOOSE ret \in {
             IF ~block.ok THEN block
             ELSE parseConditional(tokens, block.index,
                      Append(branches,
                             [condition |->
                                  IF tokens[index + 1].type = "ELSE"
                                  THEN <<"t","r","u","e">>
                                  ELSE IF Len(tokens[index + 1].args) > 0
                                  THEN tokens[index + 1].args[1] ELSE <<>>,
                              body |-> block.body]))
           : block \in {readBlock(tokens, index + 1, <<>>)}} : TRUE)
    ELSE IF tokens[index + 1].type = "ENDIF"
    THEN [ok |-> TRUE, node |-> [type |-> "CONDITIONAL", branches |-> branches],
          index |-> index + 1]
    ELSE parseConditional(tokens, index + 1, branches)

\* the while loop of parse
parse(tokens, index, nodes) ==
    IF ~(index < Len(tokens)) \/ tokens[index + 1].type = "EOF"
    THEN [ok |-> TRUE, nodes |-> nodes]
    ELSE IF tokens[index + 1].type = "IF"
    THEN (CHOOSE ret \in {
             IF ~inner.ok THEN inner
             ELSE parse(tokens, inner.index, Append(nodes, inner.node))
           : inner \in {parseConditional(tokens, index, <<>>)}} : TRUE)
    ELSE IF tokens[index + 1].type \in {"ELSEIF", "ELSE", "ENDIF"}
    THEN Throw("CodeError", "$" \o Str(toLowerCase(tokens[index + 1].name))
                                \o " cannot be used outside of an $if block")
    ELSE parse(tokens, index + 1, Append(nodes, NodeOf(tokens[index + 1])))

\* the last branch whose condition holds, 0 if none
TakenBranchLast(branches) ==
    IF \E b \in 1..Len(branches) :
           Str(branches[b].condition) = "true" \/ CheckCondition(branches[b].condition)
    THEN CHOOSE b \in 1..Len(branches) :
             /\ Str(branches[b].condition) = "true" \/ CheckCondition(branches[b].condition)
             /\ \A a \in (b + 1)..Len(branches) :
                    ~(Str(branches[a].condition) = "true"
                      \/ CheckCondition(branches[a].condition))
    ELSE 0

\* the first branch that the walk of a conditional takes, 0 if none
TakenBranch(branches) ==
    IF \E b \in 1..Len(branches) :
           Str(branches[b].condition) = "true" \/ CheckCondition(branches[b].condition)
    THEN CHOOSE b \in 1..Len(branches) :
             /\ Str(branches[b].condition) = "true" \/ CheckCondition(branches[b].condition)
             /\ \A a \in 1..(b - 1) :
                    ~(Str(branches[a].condition) = "true"
                      \/ CheckCondition(branches[a].condition))
    ELSE 0

\* walk of evaluate: the strings pushed to output, in order
walk(nodes) ==
    IF nodes = <<>> THEN <<>>
    ELSE (CASE nodes[1].type = "TEXT" -> <<nodes[1].value>>
            [] nodes[1].type = "FUNCTION" ->
                  IF functions["$" \o Str(toLowerCase(nodes[1].value))].code
                     /\ FunctionCode("$" \o Str(toLowerCase(nodes[1].value)),
                                     nodes[1].args) # <<>>
                  THEN <<FunctionCode("$" \o Str(toLowerCase(nodes[1].value)),
                                      nodes[1].args)>>
                  ELSE <<>>
            [] nodes[1].type = "CONDITIONAL" ->
                  IF TakenBranch(nodes[1].branches) = 0 THEN <<>>
                  ELSE walk(nodes[1].branches[TakenBranch(nodes[1].branches)].body))
         \o walk(Tail(nodes))

evaluate(tokens) ==
    IF ~isEndifCountEquals(tokens)
    THEN Throw("CodeError", "Missing $endif for $if")
    ELSE (CHOOSE ret \in {
             IF ~parsed.ok THEN parsed
             ELSE [ok |-> TRUE, result |-> trim(join(walk(parsed.nodes), <<>>)),
                   emitted |-> walk(parsed.nodes)]
           : parsed \in {parse(tokens, 0, <<>>)}} : TRUE)

Interpreter(code) ==
    (CHOOSE ret \in {
        IF ~lexed.ok THEN lexed ELSE evaluate(lexed.tokens)
      : lexed \in {tokenize(code)}} : TRUE)
(***************************************************************************)
(* Source texts.  A text is the character sequence of a program fragment; *)
(* the fragment is quoted in the comment next to it.                       *)
(***************************************************************************)
RECURSIVE Cat(_)
\* concatenation of a sequence of texts
Cat(ts) == IF ts = <<>> THEN <<>> ELSE Head(ts) \o Cat(Tail(ts))

\* class Animal { let constructor = func(self,name){ this.name = name; }
\*   let speak = func(self){ return this.name; } }
\* let a = new Animal("Rex"); a.speak()
AnimalSrc ==
    Cat(<< <<"c","l","a","s","s"," ","A","n","i","m","a","l"," ","{"," ">>,
           <<"l","e","t"," ","c","o","n","s","t","r","u","c","t","o","r"," ","="," ","f","u",
                   "n","c","(","s","e","l","f",",","n","a","m","e",")","{"," ","t","h","i","s",
                   ".","n","a","m","e"," ","="," ","n","a","m","e",";"," ","}"," ">>,
           <<"l","e","t"," ","s","p","e","a","k"," ","="," ","f","u","n","c","(","s","e","l",
                   "f",")","{"," ","r","e","t","u","r","n"," ","t","h","i","s",".","n","a","m",
                   "e",";"," ","}"," ","}"," ">>,
           <<"l","e","t"," ","a"," ","="," ","n","e","w"," ","A","n","i","m","a","l","(","\"",
                   "R","e","x","\"",")",";"," ","a",".","s","p","e","a","k","(",")">> >>)

\* the example program of main(), its runs of white space shortened
MainSrc ==
    Cat(<< <<"l","e","t"," ","a","d","d"," ","="," ","f","u","n","c"," ","(","x",","," ","y",
            ")"," ","{"," ","r","e","t","u","r","n"," ","x"," ","+"," ","y"," ","}","\n">>,
           <<"l","e","t"," ","r","e","s","u","l","t"," ","="," ","a","d","d","(","3",","," ",
                   "4",")","\n","p","r","i","n","t","(","r","e","s","u","l","t",")",";","\n">>,
           <<"l","e","t"," ","a","r","r"," ","="," ","[","1",","," ","2",","," ","3","]","\n",
                   "p","r","i","n","t","(","a","r","r","[","1","]",")","\n">>,
           <<"l","e","t"," ","o","b","j"," ","="," ","{"," ","\"","n","a","m","e","\"",":"," ",
                   "\"","B","u","d","d","y","\"",","," ","\"","a","g","e","\"",":"," ","5"," ",
                   "}","\n","p","r","i","n","t","(","o","b","j","[","\"","n","a","m","e","\"",
                   "]",")","\n">>,
           <<"i","f"," ","(","r","e","s","u","l","t"," ",">"," ","5",")"," ","{"," ","p","r",
                   "i","n","t","(","\"","b","i","g"," ","r","e","s","u","l","t","\"",")"," ",
                   "}"," ">>,
           <<"e","l","s","e"," ","{"," ","p","r","i","n","t","(","\"","s","m","a","l","l"," ",
                   "r","e","s","u","l","t","\"",")"," ","}","\n">>,
           <<"l","e","t"," ","n","o","t","h","i","n","g"," ","="," ","n","u","l","l","\n","p",
                   "r","i","n","t","(","n","o","t","h","i","n","g",")">> >>)

\* the sources  target = value: each with the nodes its two sides parse to
AssignTargets ==
    { [text |-> <<"x">>, node |-> Identifier("x")],
      [text |-> <<"o","b","j",".","p">>,
       node |-> [kind |-> "PropertyExpression", Object |-> Identifier("obj"),
                 Property |-> "p"]] }

AssignValues ==
    { [text |-> <<"5">>, node |-> [kind |-> "IntegerLiteral", Value |-> 5]],
      [text |-> <<"y">>, node |-> Identifier("y")],
      [text |-> <<"\"","s","\"">>, node |-> [kind |-> "StringLiteral", Value |-> "s"]],
      [text |-> <<"t","r","u","e">>, node |-> [kind |-> "Boolean", Value |-> TRUE]] }

AssignSrc(target, value) == Cat(<<target, <<" ","="," ">>, value>>)

AssignSources ==
    { AssignSrc(t.text, v.text) : t \in AssignTargets, v \in AssignValues }

\* operands of every object type a literal or a name can produce, each with
\* the Type() of the object it evaluates to
Operands ==
    { [text |-> <<"0">>,        type |-> "INTEGER"],
      [text |-> <<"7">>,        type |-> "INTEGER"],
      [text |-> <<"\"","s","\"">>,      type |-> "STRING"],
      [text |-> <<"t","r","u","e">>,     type |-> "BOOLEAN"],
      [text |-> <<"n","u","l","l">>,     type |-> "NULL"],
      [text |-> <<"[","1","]">>,      type |-> "ARRAY"],
      [text |-> <<"{","1",":"," ","2","}">>,   type |-> "HASH"],
      [text |-> <<"l","e","n">>,      type |-> "BUILTIN"],
      [text |-> <<"f","u","n","c","(",")","{","}">>, type |-> "FUNCTION"] }

\* the eight infix operators
InfixOperators ==
    { <<"+">>, <<"-">>, <<"*">>, <<"/">>, <<"<">>, <<">">>, <<"=","=">>, <<"!","=">> }

InfixSrc(left, operator, right) == Cat(<<left, <<" ">>, operator, <<" ">>, right>>)

InfixSources ==
    { InfixSrc(a.text, op, b.text) :
        a \in Operands, op \in InfixOperators, b \in Operands }

\* a Return in value position: the value of a Let, the argument of a call
ReturnStoreSources ==
    { <<"l","e","t"," ","x"," ","="," ","i","f"," ","(","t","r","u","e",")"," ","{"," ","r","e",
            "t","u","r","n"," ","1"," ","}">>,
      <<"l","e","t"," ","x"," ","="," ","i","f"," ","(","t","r","u","e",")"," ","{"," ","1"," ",
              "}">>,
      <<"l","e","t"," ","f"," ","="," ","f","u","n","c","(","a",")"," ","{"," ","a"," ","}",";",
              " ","f","(","i","f"," ","(","t","r","u","e",")"," ","{"," ","r","e","t","u","r",
              "n"," ","1"," ","}",")">>,
      <<"l","e","t"," ","f"," ","="," ","f","u","n","c","(","a",")"," ","{"," ","a"," ","}",";",
              " ","f","(","i","f"," ","(","t","r","u","e",")"," ","{"," ","1"," ","}",")">> }

\* the value of an empty function body or of an empty block, bound by a Let
\* and then used as an operand or as an index
NilUseSources ==
    { <<"l","e","t"," ","f"," ","="," ","f","u","n","c","(",")","{","}",";"," ","l","e","t"," ",
            "y"," ","="," ","f","(",")",";"," ","y"," ","+"," ","1">>,
      <<"l","e","t"," ","f"," ","="," ","f","u","n","c","(",")","{","}",";"," ","l","e","t"," ",
              "y"," ","="," ","f","(",")",";"," ","1"," ","+"," ","y">>,
      <<"l","e","t"," ","f"," ","="," ","f","u","n","c","(",")","{","}",";"," ","l","e","t"," ",
              "y"," ","="," ","f","(",")",";"," ","-","y">>,
      <<"l","e","t"," ","f"," ","="," ","f","u","n","c","(",")","{","}",";"," ","l","e","t"," ",
              "y"," ","="," ","f","(",")",";"," ","[","1","]","[","y","]">>,
      <<"l","e","t"," ","f"," ","="," ","f","u","n","c","(",")","{","}",";"," ","l","e","t"," ",
              "y"," ","="," ","f","(",")",";"," ","y","[","0","]">>,
      <<"l","e","t"," ","y"," ","="," ","i","f"," ","(","t","r","u","e",")"," ","{","}",";"," ",
              "y"," ","+"," ","1">>,
      <<"l","e","t"," ","y"," ","="," ","i","f"," ","(","t","r","u","e",")"," ","{","}",";"," ",
              "{","1",":"," ","2","}","[","y","]">>,
      <<"l","e","t"," ","y"," ","="," ","i","f"," ","(","f","a","l","s","e",")"," ","{","}",";",
              " ","y"," ","+"," ","1">> }

\* the undefined name foo evaluates to an ErrorSignal; every text puts a
\* sibling with an effect (a print, a Let) after it
ShortCircuitSources ==
    { <<"f","o","o"," ","+"," ","p","r","i","n","t","(","1",")">>,
      <<"!","f","o","o",";"," ","p","r","i","n","t","(","1",")">>,
      <<"l","e","n","(","f","o","o",","," ","p","r","i","n","t","(","1",")",")">>,
      <<"[","f","o","o",","," ","p","r","i","n","t","(","1",")","]">>,
      <<"{","f","o","o",":"," ","p","r","i","n","t","(","1",")","}">>,
      <<"{","f","o","o",":"," ","1",","," ","2",":"," ","p","r","i","n","t","(","1",")","}">>,
      <<"{","1",":"," ","f","o","o",","," ","2",":"," ","p","r","i","n","t","(","1",")","}">>,
      <<"i","f"," ","(","t","r","u","e",")"," ","{"," ","f","o","o",";"," ","p","r","i","n","t",
              "(","1",")"," ","}">>,
      <<"i","f"," ","(","t","r","u","e",")"," ","{"," ","f","o","o",";"," ","l","e","t"," ","z",
              " ","="," ","1"," ","}">>,
      <<"f","o","o",";"," ","p","r","i","n","t","(","1",")">>,
      <<"f","o","o",";"," ","l","e","t"," ","z"," ","="," ","1">> }

\* deepest nesting of If blocks around a Return
MaxDepth == 2

RECURSIVE Nest(_)
\* a Return of the parameter c under d If blocks; a print follows the Return
\* and a print follows every If in its enclosing block
Nest(d) ==
    IF d = 0 THEN <<"r","e","t","u","r","n"," ","c",";"," ","p","r","i","n","t","(","9",")",";",
            " ">>
    ELSE Cat(<< <<"i","f"," ","(","c",")"," ","{"," ">>, Nest(d - 1), <<"}"," ","p","r","i","n",
            "t","(">>, <<ToString(d)>>, <<")",";"," ">> >>)

\* arguments of the call, each with the object it evaluates to
ReturnArgs ==
    { [text |-> <<"1">>,     obj |-> Integer(1)],
      [text |-> <<"0">>,     obj |-> Integer(0)],
      [text |-> <<"\"","s","\"">>,   obj |-> String("s")],
      [text |-> <<"t","r","u","e">>,  obj |-> TRUE_OBJ],
      [text |-> <<"f","a","l","s","e">>, obj |-> FALSE_OBJ],
      [text |-> <<"n","u","l","l">>,  obj |-> NULL] }

\* let f = func(c) { <Nest(d)> print(0); return 2 }; let r = f(<arg>); print(8)
ReturnSrc(d, arg) ==
    Cat(<< <<"l","e","t"," ","f"," ","="," ","f","u","n","c","(","c",")"," ","{"," "
            >>, Nest(d), <<"p","r","i","n","t","(","0",")",";"," ","r","e","t","u","r","n"," ",
            "2"," ","}",";"," ">>,
           <<"l","e","t"," ","r"," ","="," ","f","(">>, arg, <<")",";"," ","p","r","i","n","t",
                   "(","8",")">> >>)

ReturnSources == { ReturnSrc(d, c.text) : d \in 0..MaxDepth, c \in ReturnArgs }

\* largest number of arguments of a call of the two-parameter function
MaxArgs == 3

RECURSIVE ArgList(_)
\* the k arguments 11, 12, ...
ArgList(k) ==
    IF k = 0 THEN <<>>
    ELSE Cat(<< ArgList(k - 1), IF k > 1 THEN <<","," ">> ELSE <<>>,
                <<"1", ToString(k)>> >>)

\* what precedes the function: nothing, or a Let of the name of its second
\* parameter in the environment the function captures
ArgPres ==
    { [text |-> <<>>, binds |-> FALSE],
      [text |-> <<"l","e","t"," ","b"," ","="," ","5",";"," ">>, binds |-> TRUE] }

\* <pre> let f = func(a, b) { b }; f(<k arguments>)
ArgSrc(pre, k) ==
    Cat(<< pre, <<"l","e","t"," ","f"," ","="," ","f","u","n","c","(","a",","," ","b",")"," ",
            "{"," ","b"," ","}",";"," ","f","(">>, ArgList(k), <<")">> >>)

\* the function is made by a call of g that binds b
ClosureArgSrc(k) ==
    Cat(<< <<"l","e","t"," ","g"," ","="," ","f","u","n","c","(","b",")"," ","{"," ","f","u",
            "n","c","(","a",","," ","b",")"," ","{"," ","b"," ","}"," ","}",";"," ","g","(","7",
            ")","(">>, ArgList(k), <<")">> >>)

\* the second parameter has the name of a builtin
BuiltinParamSrc(k) ==
    Cat(<< <<"l","e","t"," ","f"," ","="," ","f","u","n","c","(","a",","," ","l","e","n",")",
            " ","{"," ","l","e","n"," ","}",";"," ","f","(">>, ArgList(k), <<")">> >>)

ArgSources ==
    { ArgSrc(pre.text, k) : pre \in ArgPres, k \in 0..MaxArgs }
        \cup { ClosureArgSrc(k) : k \in 0..MaxArgs }
        \cup { BuiltinParamSrc(k) : k \in 0..MaxArgs }

\* the character # is lexed as an ILLEGAL token: one text for each position
IllegalSources ==
    { <<"#">>,
      <<"1"," ","#"," ","2">>,
      <<"l","e","t"," ","x"," ","="," ","#">>,
      <<"l","e","t"," ","#"," ","="," ","1">>,
      <<"-","#">>,
      <<"(","#",")">>,
      <<"f","u","n","c","(","#",")","{","}">>,
      <<"f","u","n","c","(","a",","," ","#",")","{"," ","a"," ","}">>,
      <<"f","u","n","c","(","a"," ","#",")","{","}">>,
      <<"f","u","n","c","(",")","{"," ","#"," ","}">>,
      <<"{","#",":"," ","1","}">>,
      <<"{","1",":"," ","#","}">>,
      <<"[","1",","," ","#","]">>,
      <<"f","(","#",")">>,
      <<"a","[","#","]">>,
      <<"a",".","#">>,
      <<"i","f"," ","(","#",")"," ","{","}">>,
      <<"i","f"," ","(","t","r","u","e",")"," ","{"," ","#"," ","}">>,
      <<"p","r","i","n","t","(","#",")">>,
      <<"r","e","t","u","r","n"," ","#">> }

\* deepest nesting of calls around an assignment or a name
MaxChain == 2

\* names that are no builtin and that no Let and no parameter of the text
\* binds
UnboundNames == { <<"f","o","o">>, <<"x">>, <<"l","e","n","s">> }

RECURSIVE UnboundSrc(_, _, _)
\* let a = 1; <name>  with the name under d calls, the call at depth k
\* binding a parameter of its own:  func(p) { func(q) { <name> }(2) }(1)
UnboundSrc(name, k, d) ==
    IF k = 0 THEN Cat(<< <<"l","e","t"," ","a"," ","="," ","1",";"," ">>, UnboundSrc(name, 1, d) >>)
    ELSE IF k > d THEN name
    ELSE Cat(<< <<"f","u","n","c","(">>, <<<<"p","q","r","s","t","u">>[k]>>, <<")"," ","{"," "
            >>, UnboundSrc(name, k + 1, d),
                <<" ","}","(">>, <<ToString(k)>>, <<")">> >>)

\* largest number of Lets of one name in a row
MaxLets == 2

\* the values of the Lets in a row, each with the object it evaluates to
LetSeqs == UNION { [1..n -> ReturnArgs] : n \in 1..MaxLets }

RECURSIVE LetSrc(_)
\* let x = <v1>; let x = <v2>; ... x
LetSrc(vs) ==
    IF vs = <<>> THEN <<"x">>
    ELSE Cat(<< <<"l","e","t"," ","x"," ","="," ">>, Head(vs).text, <<";"," "
            >>, LetSrc(Tail(vs)) >>)

\* let x = <v>; let r = func() { let x = <w>; x }(); x
LetInCallSrc(v, w) ==
    Cat(<< <<"l","e","t"," ","x"," ","="," ">>, v, <<";"," ","l","e","t"," ","r"," ","="," ",
            "f","u","n","c","(",")"," ","{"," ","l","e","t"," ","x"," ","="," ">>, w, <<";"," ",
            "x"," ","}","(",")",";"," ","x">> >>)

\* largest number of elements of an indexed array
MaxElems == 3

\* let arr = [11, 12, ...]; arr[<i>]  with n elements; a negative index is
\* the prefix expression -<digit>
IndexSrc(n, i) ==
    Cat(<< <<"l","e","t"," ","a","r","r"," ","="," ","[">>, ArgList(n), <<"]",";"," ","a","r",
            "r","[">>,
           IF i < 0 THEN <<"-", ToString(0 - i)>> ELSE <<ToString(i)>>, <<"]">> >>)

\* the builtin names a Let or a parameter can take (print is a keyword)
ShadowedNames == { <<"l","e","n">>, <<"p","u","s","h">> }

\* let <name> = 5; <name>  with the second <name> under d calls
ShadowLetSrc(name, d) ==
    Cat(<< <<"l","e","t"," ">>, name, <<" ","="," ","5",";"," ">>, UnboundSrc(name, 1, d) >>)

\* func(<name>) { <name> }(5)
ShadowParamSrc(name) ==
    Cat(<< <<"f","u","n","c","(">>, name, <<")"," ","{"," ">>, name, <<" ","}","(","5",")">> >>)

\* keys of a map literal and indexes of a Hash, each with its printed form
HashKeys ==
    { [text |-> <<"5">>,      printed |-> "5"],
      [text |-> <<"\"","5","\"">>,    printed |-> "5"],
      [text |-> <<"7">>,      printed |-> "7"],
      [text |-> <<"t","r","u","e">>,   printed |-> "true"],
      [text |-> <<"\"","t","r","u","e","\"">>, printed |-> "true"],
      [text |-> <<"n","u","l","l">>,   printed |-> "null"],
      [text |-> <<"\"","n","u","l","l","\"">>, printed |-> "null"],
      [text |-> <<"\"","x","\"">>,    printed |-> "x"] }

\* {<key>: 1}[<index>]
HashSrc(key, index) == Cat(<< <<"{">>, key, <<":"," ","1","}","[">>, index, <<"]">> >>)

\* how f, whose body reads the free name x, is called: from the root
\* environment, or from a function g that binds x as its parameter or by a
\* Let of its own
ScopeCallers ==
    { [is |-> "root",  text |-> <<"f","(",")">>],
      [is |-> "param", text |-> <<"l","e","t"," ","g"," ","="," ","f","u","n","c","(","x",")",
              " ","{"," ","f","(",")"," ","}",";"," ","g","(","5",")">>],
      [is |-> "let",   text |-> <<"l","e","t"," ","g"," ","="," ","f","u","n","c","(",")"," ",
              "{"," ","l","e","t"," ","x"," ","="," ","5",";"," ","f","(",")"," ","}",";"," ",
              "g","(",")">>] }

\* [let x = 1;] let f = func() { x }; [let x = 2;] <caller>
ScopeSrc(early, late, caller) ==
    Cat(<< IF early THEN <<"l","e","t"," ","x"," ","="," ","1",";"," ">> ELSE <<>>, <<"l","e",
            "t"," ","f"," ","="," ","f","u","n","c","(",")"," ","{"," ","x"," ","}",";"," ">>,
           IF late THEN <<"l","e","t"," ","x"," ","="," ","2",";"," ">> ELSE <<>>, caller >>)

\* functions made in the environment of a call, each text with its result
ClosureSources ==
    { [text |-> <<"l","e","t"," ","m","k"," ","="," ","f","u","n","c","(","x",")"," ","{"," ",
            "f","u","n","c","(",")"," ","{"," ","x"," ","}"," ","}",";"," ","l","e","t"," ","h",
            " ","="," ","m","k","(","3",")",";"," ","h","(",")">>,
       obj |-> Integer(3)],
      [text |-> <<"l","e","t"," ","m","k"," ","="," ","f","u","n","c","(","x",")"," ","{"," ",
              "f","u","n","c","(",")"," ","{"," ","x"," ","}"," ","}",";"," ","l","e","t"," ",
              "h"," ","="," ","m","k","(","3",")",";"," ","l","e","t"," ","x"," ","="," ","9",
              ";"," ","h","(",")">>,
       obj |-> Integer(3)],
      [text |-> <<"l","e","t"," ","m","k"," ","="," ","f","u","n","c","(",")"," ","{"," ","l",
              "e","t"," ","f"," ","="," ","f","u","n","c","(",")"," ","{"," ","x"," ","}",";",
              " ","l","e","t"," ","x"," ","="," ","4",";"," ","f"," ","}",";"," ","m","k","(",
              ")","(",")">>,
       obj |-> Integer(4)],
      [text |-> <<"l","e","t"," ","m","k"," ","="," ","f","u","n","c","(",")"," ","{"," ","l",
              "e","t"," ","f"," ","="," ","f","u","n","c","(",")"," ","{"," ","x"," ","}",";",
              " ","l","e","t"," ","x"," ","="," ","4",";"," ","f"," ","}",";"," ","l","e","t",
              " ","x"," ","="," ","9",";"," ","m","k","(",")","(",")">>,
       obj |-> Integer(4)],
      [text |-> <<"l","e","t"," ","m","k"," ","="," ","f","u","n","c","(","x",")"," ","{"," ",
              "f","u","n","c","(",")"," ","{"," ","x"," ","}"," ","}",";"," ","l","e","t"," ",
              "a"," ","="," ","m","k","(","3",")",";"," ","l","e","t"," ","b"," ","="," ","m",
              "k","(","4",")",";"," ","a","(",")"," ","+"," ","b","(",")">>,
       obj |-> Integer(7)] }

\* let a = [11, 12, ...]; let w = [a]; let b = push(a, 5);
\* let c = push(b, 6); let d = push(a, 7); a      with the first k pushes
PushSrc(n, k) ==
    Cat(<< <<"l","e","t"," ","a"," ","="," ","[">>, ArgList(n), <<"]",";"," ","l","e","t"," ",
            "w"," ","="," ","[","a","]",";"," ">>,
           IF k >= 1 THEN <<"l","e","t"," ","b"," ","="," ","p","u","s","h","(","a",","," ","5",
                   ")",";"," ">> ELSE <<>>,
           IF k >= 2 THEN <<"l","e","t"," ","c"," ","="," ","p","u","s","h","(","b",","," ","6",
                   ")",";"," ">> ELSE <<>>,
           IF k >= 3 THEN <<"l","e","t"," ","d"," ","="," ","p","u","s","h","(","a",","," ","7",
                   ")",";"," ">> ELSE <<>>,
           <<"a">> >>)

\* the binary operators, each with its token type
BinaryOperators ==
    { [text |-> <<"+">>,  type |-> "PLUS"],     [text |-> <<"-">>,  type |-> "MINUS"],
      [text |-> <<"*">>,  type |-> "ASTERISK"], [text |-> <<"/">>,  type |-> "SLASH"],
      [text |-> <<"<">>,  type |-> "LT"],       [text |-> <<">">>,  type |-> "GT"],
      [text |-> <<"=","=">>, type |-> "EQ"],       [text |-> <<"!","=">>, type |-> "NOT_EQ"] }

\* the longest run of binary operators in one expression
MaxOps == 2

InfixExpression(operator, left, right) ==
    [kind |-> "InfixExpression", Operator |-> operator, Left |-> left,
     Right |-> right]

\* operands: a name alone, under a prefix operator, and followed by a
\* property, a call or an index; each with the tree of that operand
Atoms ==
    { [text |-> <<"a">>,    tree |-> Identifier("a")],
      [text |-> <<"-","a">>,   tree |-> [kind |-> "PrefixExpression", Operator |-> "-",
                                    Right |-> Identifier("a")]],
      [text |-> <<"!","a">>,   tree |-> [kind |-> "PrefixExpression", Operator |-> "!",
                                    Right |-> Identifier("a")]],
      [text |-> <<"a",".","b">>,  tree |-> [kind |-> "PropertyExpression",
                                    Object |-> Identifier("a"), Property |-> "b"]],
      [text |-> <<"f","(","a",")">>, tree |-> [kind |-> "CallExpression",
                                    Function |-> Identifier("f"),
                                    Arguments |-> <<Identifier("a")>>]],
      [text |-> <<"a","[","7","]">>, tree |-> [kind |-> "IndexExpression",
                                    Left |-> Identifier("a"),
                                    Index |-> [kind |-> "IntegerLiteral", Value |-> 7]]],
      [text |-> <<"-","a",".","b">>, tree |-> [kind |-> "PrefixExpression", Operator |-> "-",
                                    Right |-> [kind |-> "PropertyExpression",
                                               Object |-> Identifier("a"),
                                               Property |-> "b"]]],
      [text |-> <<"!","f","(","a",")">>, tree |-> [kind |-> "PrefixExpression", Operator |-> "!",
                                     Right |-> [kind |-> "CallExpression",
                                                Function |-> Identifier("f"),
                                                Arguments |-> <<Identifier("a")>>]]] }

\* the k-th plain operand:  p, q, r, ...
Plain(k) == [text |-> <<<<"p","q","r","s","t","u">>[k]>>, tree |-> Identifier(Str(<<<<"p","q",
        "r","s","t","u">>[k]>>))]

\* operands xs[1] .. xs[n+1] joined by the operators ops[1] .. ops[n]
ChainExprs ==
    UNION { { [xs |-> [k \in 1..(n + 1) |-> Plain(k)], ops |-> os] :
                os \in [1..n -> BinaryOperators] } : n \in 1..MaxOps }
    \cup { [xs |-> <<x, y>>, ops |-> <<o>>] :
              x \in Atoms, y \in Atoms, o \in BinaryOperators }

RECURSIVE ChainSrc(_, _)
\* the text  x1 op1 x2 op2 ... 
ChainSrc(xs, ops) ==
    IF ops = <<>> THEN xs[1].text
    ELSE Cat(<<xs[1].text, <<" ">>, ops[1].text, <<" ">>, ChainSrc(Tail(xs), Tail(ops))>>)

\* conditions of an If, each with the Type() of its value ("nil" for the
\* nil interface an empty function body returns) and, for a Boolean, the
\* value
IfConditions ==
    { [text |-> <<"0">>,          type |-> "INTEGER", value |-> FALSE],
      [text |-> <<"7">>,          type |-> "INTEGER", value |-> FALSE],
      [text |-> <<"\"","\"">>,         type |-> "STRING",  value |-> FALSE],
      [text |-> <<"\"","s","\"">>,        type |-> "STRING",  value |-> FALSE],
      [text |-> <<"t","r","u","e">>,       type |-> "BOOLEAN", value |-> TRUE],
      [text |-> <<"f","a","l","s","e">>,      type |-> "BOOLEAN", value |-> FALSE],
      [text |-> <<"1"," ","<"," ","2">>,      type |-> "BOOLEAN", value |-> TRUE],
      [text |-> <<"1"," ",">"," ","2">>,      type |-> "BOOLEAN", value |-> FALSE],
      [text |-> <<"!","0">>,         type |-> "BOOLEAN", value |-> FALSE],
      [text |-> <<"n","u","l","l">>,       type |-> "NULL",    value |-> FALSE],
      [text |-> <<"[","1","]","[","5","]">>,     type |-> "NULL",    value |-> FALSE],
      [text |-> <<"[","]">>,         type |-> "ARRAY",   value |-> FALSE],
      [text |-> <<"l","e","n">>,        type |-> "BUILTIN", value |-> FALSE],
      [text |-> <<"f","u","n","c","(",")","{","}">>,   type |-> "FUNCTION", value |-> FALSE],
      [text |-> <<"f","u","n","c","(",")","{","}","(",")">>, type |-> "nil",     value |-> FALSE],
      [text |-> <<"z","z">>,         type |-> "ERROR",   value |-> FALSE],
      [text |-> <<"1"," ","+"," ","t","r","u","e">>,   type |-> "ERROR",   value |-> FALSE] }

\* if (c) { print(1); 10 }  with or without  else { print(2); 20 }
IfSrc(c, alt) ==
    Cat(<< <<"i","f"," ","(">>, c, <<")"," ","{"," ","p","r","i","n","t","(","1",")",";"," ",
            "1","0"," ","}">>,
           IF alt THEN <<" ","e","l","s","e"," ","{"," ","p","r","i","n","t","(","2",")",";",
                   " ","2","0"," ","}">> ELSE <<>> >>)

\* digit runs, with and without leading zeros
DigitRuns ==
    { <<"0">>, <<"7">>, <<"1","0">>, <<"1","2","3">>, <<"2","0","2","4">>, <<"0","0">>, <<"0",
            "1","0">>, <<"0","8">>, <<"0","0","7">>,
      <<"0","1","2","3">>, <<"0","9">> }

Sources ==
    {AnimalSrc, MainSrc} \cup AssignSources \cup InfixSources
        \cup ReturnStoreSources \cup NilUseSources \cup ShortCircuitSources
        \cup ReturnSources \cup ArgSources \cup IllegalSources
        \cup { UnboundSrc(n, 0, d) : n \in UnboundNames, d \in 0..MaxChain }
        \cup { ShadowLetSrc(n, d) : n \in ShadowedNames, d \in 0..MaxChain }
        \cup { ShadowParamSrc(n) : n \in ShadowedNames }
        \cup { LetSrc(vs) : vs \in LetSeqs }
        \cup { PushSrc(n, k) : n \in 0..MaxElems, k \in 0..3 }
        \cup { ScopeSrc(e, l, c.text) : e \in BOOLEAN, l \in BOOLEAN, c \in ScopeCallers }
        \cup { c.text : c \in ClosureSources }
        \cup { HashSrc(k.text, i.text) : k \in HashKeys, i \in HashKeys }
        \cup { IndexSrc(n, i) : n \in 0..MaxElems, i \in -2..(MaxElems + 1) }
        \cup { LetInCallSrc(v.text, w.text) : v \in ReturnArgs, w \in ReturnArgs }
        \cup { ChainSrc(e.xs, e.ops) : e \in ChainExprs }
        \cup DigitRuns
        \cup { IfSrc(c.text, alt) : c \in IfConditions, alt \in BOOLEAN }

(***************************************************************************)
(* Programs given to Eval as trees.  The parser builds no Assignment node, *)
(* so the programs that assign are built from the node types of package   *)
(* ast directly.                                                           *)
(***************************************************************************)
\* the assigned values, each with the object it evaluates to
AssignedValues ==
    { [node |-> [kind |-> "IntegerLiteral", Value |-> 5], obj |-> Integer(5)],
      [node |-> [kind |-> "StringLiteral", Value |-> "s"], obj |-> String("s")],
      [node |-> [kind |-> "Boolean", Value |-> TRUE], obj |-> TRUE_OBJ],
      [node |-> [kind |-> "NullExpression"], obj |-> NULL] }

ExpressionStatement(e) == [kind |-> "ExpressionStatement", Expression |-> e]

RECURSIVE ChainStatements(_, _, _, _)
\* the statements at call depth k:  let x = 1  when k is the depth b of the
\* declaration, then  x = <v>  at depth d, the call  func() { ... }()  of
\* the statements of depth k + 1 above it
ChainStatements(k, d, b, v) ==
    (IF b = k
     THEN << [kind |-> "LetStatement", Name |-> "x",
              Value |-> [kind |-> "IntegerLiteral", Value |-> 1]] >>
     ELSE <<>>)
    \o (IF k = d
        THEN << ExpressionStatement([kind |-> "AssignmentExpression",
                                     Left |-> Identifier("x"), Value |-> v]) >>
        ELSE << ExpressionStatement(
                  [kind |-> "CallExpression",
                   Function |->
                       [kind |-> "FunctionLiteral", Parameters |-> <<>>,
                        Body |-> [kind |-> "BlockStatement",
                                  Statements |-> ChainStatements(k + 1, d, b, v)]],
                   Arguments |-> <<>>]) >>)

\* x is assigned under d calls and declared at depth b (at no depth when b
\* is -1); the last statement reads x in the root environment
AssignProgram(d, b, v) ==
    [kind |-> "Program",
     Statements |-> ChainStatements(0, d, b, v)
                        \o << ExpressionStatement(Identifier("x")) >>]

\* the depth d of the assignment with the depth b of the declaration
AssignPlaces == { pl \in (0..MaxChain) \X (-1..MaxChain) : pl[2] <= pl[1] }

AssignPrograms ==
    { AssignProgram(pl[1], pl[2], v.node) : pl \in AssignPlaces, v \in AssignedValues }

\* The parser builds no class and no New node either (class and new are
\* lexed as identifiers), so the programs with classes are trees too.
IntegerLiteral(i) == [kind |-> "IntegerLiteral", Value |-> i]

PropertyExpression(object, property) ==
    [kind |-> "PropertyExpression", Object |-> object, Property |-> property]

AssignmentExpression(left, value) ==
    [kind |-> "AssignmentExpression", Left |-> left, Value |-> value]

NewExpression(class, arguments) ==
    [kind |-> "NewExpression", Class |-> class, Arguments |-> arguments]

LetStatement(name, value) == [kind |-> "LetStatement", Name |-> name, Value |-> value]

\* a method the way parseClassStatement builds it: the function literal with
\* the name of the method put before its parameters
Method(name, parameters, statements) ==
    [kind |-> "FunctionLiteral", Parameters |-> <<name>> \o parameters,
     Body |-> [kind |-> "BlockStatement", Statements |-> statements]]

ClassStatement(name, super, methods) ==
    [kind |-> "ClassStatement", Name |-> name, SuperClass |-> super,
     Methods |-> methods]

\* class A { let m = func() { 1 } }
\* class B extends A { let k = func() { 2 }
\*                     let constructor = func() { this.p = 3 } }
\* let o = new B()
InstanceStatements ==
    << ClassStatement("A", NilNode,
           << Method("m", <<>>, <<ExpressionStatement(IntegerLiteral(1))>>) >>),
       ClassStatement("B", Identifier("A"),
           << Method("k", <<>>, <<ExpressionStatement(IntegerLiteral(2))>>),
              Method("constructor", <<>>,
                  << ExpressionStatement(AssignmentExpression(
                         PropertyExpression([kind |-> "ThisExpression"], "p"),
                         IntegerLiteral(3))) >>) >>),
       LetStatement("o", NewExpression(Identifier("B"), <<>>)) >>

\* the property names read: set by the constructor, a method of the class,
\* its constructor, a method of the superclass only, set by a later
\* assignment, in no map
PropertyNames == {"p", "k", "constructor", "m", "q", "z"}

\* what precedes the read: nothing, or the assignment  o.<name> = 4
PropertyWrites == {"none", "q", "k"}

\* <InstanceStatements>; o.<w> = 4; o.<name>
PropertyProgram(w, name) ==
    [kind |-> "Program",
     Statements |->
         InstanceStatements
         \o (IF w = "none" THEN <<>>
             ELSE << ExpressionStatement(AssignmentExpression(
                         PropertyExpression(Identifier("o"), w),
                         IntegerLiteral(4))) >>)
         \o << ExpressionStatement(PropertyExpression(Identifier("o"), name)) >>]

PropertyPrograms ==
    { PropertyProgram(w, n) : w \in PropertyWrites, n \in PropertyNames }

\* the bodies of the constructor: no constructor at all, an empty body, a
\* value, a Return, Null, the unbound name foo
ConstructorBodies ==
    { [is |-> "none",   statements |-> <<>>],
      [is |-> "empty",  statements |-> <<>>],
      [is |-> "value",  statements |-> <<ExpressionStatement(IntegerLiteral(7))>>],
      [is |-> "return", statements |->
          << [kind |-> "ReturnStatement", ReturnValue |-> IntegerLiteral(7)] >>],
      [is |-> "null",   statements |->
          <<ExpressionStatement([kind |-> "NullExpression"])>>],
      [is |-> "error",  statements |-> <<ExpressionStatement(Identifier("foo"))>>] }

\* the targets of New: the class C, the Integer n, the function f, the name
\* y bound to the value of the empty body of f, the unbound name u
NewTargets == {"C", "n", "f", "y", "u"}

\* class A { let m = func() { 1 } }
\* class C [extends A] { [let constructor = func() { <body> }] }
\* let n = 5; let f = func() {}; let y = f(); new <target>()
NewProgram(sup, body, target) ==
    [kind |-> "Program",
     Statements |->
         << ClassStatement("A", NilNode,
                << Method("m", <<>>, <<ExpressionStatement(IntegerLiteral(1))>>) >>),
            ClassStatement("C", IF sup THEN Identifier("A") ELSE NilNode,
                IF body.is = "none" THEN <<>>
                ELSE << Method("constructor", <<>>, body.statements) >>),
            LetStatement("n", IntegerLiteral(5)),
            LetStatement("f", [kind |-> "FunctionLiteral", Parameters |-> <<>>,
                               Body |-> [kind |-> "BlockStatement",
                                         Statements |-> <<>>]]),
            LetStatement("y", [kind |-> "CallExpression",
                               Function |-> Identifier("f"), Arguments |-> <<>>]),
            ExpressionStatement(NewExpression(Identifier(target), <<>>)) >>]

NewPrograms ==
    { NewProgram(sup, body, target) :
        sup \in BOOLEAN, body \in ConstructorBodies, target \in NewTargets }

\* the longest run of property assignments after the construction
MaxWrites == 2

\* the runs of property names assigned to:  k  is a method of the class,  p
\* is set by the constructor,  q  is new
WriteRuns == UNION { [1..n -> {"k", "p", "q"}] : n \in 0..MaxWrites }

CallExpression(function, arguments) ==
    [kind |-> "CallExpression", Function |-> function, Arguments |-> arguments]

\* class B { let k = func() { this }
\*           let constructor = func() { this.p = 3 } }
\* let o = new B(); o.<ws[1]> = 4; o.<ws[2]> = 4; ...; o.k()
MethodProgram(ws) ==
    [kind |-> "Program",
     Statements |->
         << ClassStatement("B", NilNode,
                << Method("k", <<>>,
                       <<ExpressionStatement([kind |-> "ThisExpression"])>>),
                   Method("constructor", <<>>,
                       << ExpressionStatement(AssignmentExpression(
                              PropertyExpression([kind |-> "ThisExpression"], "p"),
                              IntegerLiteral(3))) >>) >>),
            LetStatement("o", NewExpression(Identifier("B"), <<>>)) >>
         \o [i \in 1..Len(ws) |->
                ExpressionStatement(AssignmentExpression(
                    PropertyExpression(Identifier("o"), ws[i]), IntegerLiteral(4)))]
         \o << ExpressionStatement(
                   CallExpression(PropertyExpression(Identifier("o"), "k"), <<>>)) >>]

MethodPrograms == { MethodProgram(ws) : ws \in WriteRuns }

FunctionLiteral(parameters, statements) ==
    [kind |-> "FunctionLiteral", Parameters |-> parameters,
     Body |-> [kind |-> "BlockStatement", Statements |-> statements]]

\* statements of a function body that write: a Let, an Assignment and a
\* Class of the name x the root environment holds, the call of g, whose
\* body assigns to x and to g, and an assignment to a property of o
FrameBodies ==
    { [is |-> "let",      statements |-> <<LetStatement("x", IntegerLiteral(2))>>],
      [is |-> "assign",   statements |->
          <<ExpressionStatement(AssignmentExpression(Identifier("x"),
                                                     IntegerLiteral(3)))>>],
      [is |-> "class",    statements |-> <<ClassStatement("x", NilNode, <<>>)>>],
      [is |-> "nested",   statements |->
          <<ExpressionStatement(CallExpression(Identifier("g"), <<>>))>>],
      [is |-> "property", statements |->
          <<ExpressionStatement(AssignmentExpression(
                PropertyExpression(Identifier("o"), "p"), IntegerLiteral(4)))>>],
      [is |-> "all",      statements |->
          << LetStatement("x", IntegerLiteral(2)),
             ExpressionStatement(AssignmentExpression(
                 PropertyExpression(Identifier("o"), "p"), IntegerLiteral(4))),
             ExpressionStatement(CallExpression(Identifier("g"), <<>>)),
             ClassStatement("f", NilNode, <<>>),
             ExpressionStatement(AssignmentExpression(Identifier("o"),
                                                      IntegerLiteral(3))) >>] }

\* the parameters of f: none, and one of a name the root environment holds
FrameParameters == { <<>>, <<"x">>, <<"g">>, <<"o">> }

\* let x = 1; class B {}; let o = new B();
\* let g = func() { x = 3; g = 4 };
\* let f = func(<parameters>) { <body> }; f(7)
FrameProgram(parameters, body) ==
    [kind |-> "Program",
     Statements |->
         << LetStatement("x", IntegerLiteral(1)),
            ClassStatement("B", NilNode, <<>>),
            LetStatement("o", NewExpression(Identifier("B"), <<>>)),
            LetStatement("g", FunctionLiteral(<<>>,
                << ExpressionStatement(AssignmentExpression(Identifier("x"),
                                                            IntegerLiteral(3))),
                   ExpressionStatement(AssignmentExpression(Identifier("g"),
                                                            IntegerLiteral(4))) >>)),
            LetStatement("f", FunctionLiteral(parameters, body.statements)),
            ExpressionStatement(CallExpression(Identifier("f"),
                                               <<IntegerLiteral(7)>>)) >>]

FramePrograms ==
    { FrameProgram(ps, b) : ps \in FrameParameters, b \in FrameBodies }

(***************************************************************************)
(* The run of main(): parse the input, then, when the parser reported no  *)
(* error, evaluate the program statement by statement on a fresh root      *)
(* environment (the loop of evalProgram).                                  *)
(***************************************************************************)
\* largest number of pairs of a map literal whose iteration order is drawn
MaxPairs == 2

\* the iteration orders the Go runtime can pick for the maps of a statement
Orders ==
    { f \in [1..MaxPairs -> UNION {Permutations(1..n) : n \in 1..MaxPairs}] :
        \A n \in 1..MaxPairs : f[n] \in Permutations(1..n) }

RootEnv == 1

\* main() evaluates the program once: there is no second run
NoRun == [result |-> NilObject, idx |-> 0, pc |-> "none"]

\* main calls NextToken only through the parser
NoLexer == [l |-> LexerNew(<<>>), tok |-> NewToken("ILLEGAL", <<>>, 0), calls |-> 0]

\* main runs ParseProgram as one step: the parser before its first token
NoParser ==
    [l |-> LexerNew(<<>>), errors |-> <<>>,
     curToken |-> NewToken("ILLEGAL", <<>>, 0),
     peekToken |-> NewToken("ILLEGAL", <<>>, 0)]

Init ==
    /\ input \in Sources
    /\ program = NilNode
    /\ errors = <<>>
    /\ heap = EmptyHeap
    /\ result = NilObject
    /\ idx = 0
    /\ pc = "parse"
    /\ second = NoRun
    /\ lexer = NoLexer
    /\ parser = NoParser

\* p := parser.New(lexer.New(input)); program := p.ParseProgram(); main
\* returns when p.Errors() is not empty, else env := run.NewEnvironment()
Parse ==
    /\ pc = "parse"
    /\ \E pr \in {ParseProgram(input)} :
           /\ program' = pr.program
           /\ errors' = pr.errors
           /\ pc' = IF pr.errors # <<>> THEN "rejected" ELSE "eval"
           /\ heap' = IF pr.errors # <<>> THEN heap
                      ELSE NewEnvironment(EmptyHeap).h
    /\ UNCHANGED <<input, result, idx, second, lexer, parser>>

\* one iteration of the statement loop of evalProgram
EvalStatement ==
    /\ pc = "eval"
    /\ idx < Len(program.Statements)
    /\ \E ord \in Orders :
         \E r \in {evalProgramIter(program.Statements[idx + 1], RootEnv,
                                    [heap EXCEPT !.order = ord])} :
             /\ heap' = [r.h EXCEPT !.order = <<>>]
             /\ result' = r.v
             /\ pc' = IF IsPanic(r.v) THEN "panic"
                      ELSE IF r.stop THEN "done" ELSE "eval"
    /\ idx' = idx + 1
    /\ UNCHANGED <<input, program, errors, second, lexer, parser>>

\* the statement loop of evalProgram is over: Eval returns result
Finish ==
    /\ pc = "eval"
    /\ idx = Len(program.Statements)
    /\ pc' = "done"
    /\ UNCHANGED <<input, program, errors, heap, result, idx, second, lexer, parser>>

Next == Parse \/ EvalStatement \/ Finish

Spec == Init /\ [][Next]_vars

\* run.Eval(program, run.NewEnvironment()) on a program given as a tree
InitAst ==
    /\ input = <<>>
    /\ program \in AssignPrograms \cup PropertyPrograms \cup NewPrograms
                     \cup MethodPrograms \cup FramePrograms
    /\ errors = <<>>
    /\ heap = NewEnvironment(EmptyHeap).h
    /\ result = NilObject
    /\ idx = 0
    /\ pc = "eval"
    /\ second = NoRun
    /\ lexer = NoLexer
    /\ parser = NoParser

NextAst == EvalStatement \/ Finish

SpecAst == InitAst /\ [][NextAst]_vars

(***************************************************************************)
(* Two evaluations of one program, each on a fresh root environment of    *)
(* its own, in one process: their statements interleave in any order.     *)
(***************************************************************************)
\* programs that read what they wrote before: a binding, an array, a
\* binding a closure captured, a Hash
IsolationSources ==
    { <<"l","e","t"," ","x"," ","="," ","1",";"," ","l","e","t"," ","x"," ","="," ","x"," ","+",
            " ","1",";"," ","x">>,
      <<"l","e","t"," ","a"," ","="," ","[","1","]",";"," ","l","e","t"," ","a"," ","="," ","p",
              "u","s","h","(","a",","," ","2",")",";"," ","l","e","n","(","a",")">>,
      <<"l","e","t"," ","c"," ","="," ","1",";"," ","l","e","t"," ","f"," ","="," ","f","u","n",
              "c","(",")"," ","{"," ","c"," ","}",";"," ","l","e","t"," ","c"," ","="," ","c",
              " ","+"," ","1",";"," ","f","(",")">>,
      <<"l","e","t"," ","h"," ","="," ","{","1",":"," ","2","}",";"," ","l","e","t"," ","h"," ",
              "="," ","{","1",":"," ","h","[","1","]"," ","+"," ","1","}",";"," ","h","[","1",
              "]">> }

\* <InstanceStatements>; o.p = o.p + 1; o.p
IsolationTree ==
    [kind |-> "Program",
     Statements |->
         InstanceStatements
         \o << ExpressionStatement(AssignmentExpression(
                   PropertyExpression(Identifier("o"), "p"),
                   [kind |-> "InfixExpression", Operator |-> "+",
                    Left |-> PropertyExpression(Identifier("o"), "p"),
                    Right |-> IntegerLiteral(1)])),
               ExpressionStatement(PropertyExpression(Identifier("o"), "p")) >>]

\* the root environment of the second run: the second one made
SecondEnv == NewEnvironment(NewEnvironment(EmptyHeap).h).env

InitTwo ==
    /\ input = <<>>
    /\ program \in { ParseProgram(s).program : s \in IsolationSources }
                       \cup {IsolationTree}
    /\ errors = <<>>
    /\ heap = NewEnvironment(NewEnvironment(EmptyHeap).h).h
    /\ result = NilObject
    /\ idx = 0
    /\ pc = "eval"
    /\ second = [result |-> NilObject, idx |-> 0, pc |-> "eval"]
    /\ lexer = NoLexer
    /\ parser = NoParser

\* one iteration of the statement loop of the second evalProgram
EvalStatementSecond ==
    /\ second.pc = "eval"
    /\ second.idx < Len(program.Statements)
    /\ \E ord \in Orders :
         \E r \in {evalProgramIter(program.Statements[second.idx + 1], SecondEnv,
                                    [heap EXCEPT !.order = ord])} :
             /\ heap' = [r.h EXCEPT !.order = <<>>]
             /\ second' = [result |-> r.v, idx |-> second.idx + 1,
                           pc |-> IF IsPanic(r.v) THEN "panic"
                                  ELSE IF r.stop THEN "done" ELSE "eval"]
    /\ UNCHANGED <<input, program, errors, result, idx, pc, lexer, parser>>

\* the statement loop of the second evalProgram is over
FinishSecond ==
    /\ second.pc = "eval"
    /\ second.idx = Len(program.Statements)
    /\ second' = [second EXCEPT !.pc = "done"]
    /\ UNCHANGED <<input, program, errors, heap, result, idx, pc, lexer, parser>>

NextTwo == EvalStatement \/ Finish \/ EvalStatementSecond \/ FinishSecond

SpecTwo == InitTwo /\ [][NextTwo]_vars

(***************************************************************************)
(* Claims                                                                  *)
(***************************************************************************)
\* the run is over: main returned after the parse errors, Eval returned, or
\* Eval panicked
Ended == pc \in {"rejected", "done", "panic"}

\* C1: running Lexer -> ParseProgram -> Eval on the class example produces
\* no parse error and the final result is String("Rex").
C1_AnimalYieldsRex ==
    (input = AnimalSrc /\ Ended) =>
        (errors = <<>> /\ pc = "done" /\ result = String("Rex"))

\* C2: for every source  target = value  with an identifier or a property
\* expression as target, ParseProgram returns a Program whose one statement
\* holds the Assignment node of that target and that value, and the error
\* list is empty.
C2_AssignmentParses ==
    \A t \in AssignTargets, v \in AssignValues :
        (input = AssignSrc(t.text, v.text) /\ pc # "parse") =>
            /\ errors = <<>>
            /\ program.Statements =
                  << [kind |-> "ExpressionStatement",
                      Expression |-> [kind |-> "AssignmentExpression",
                                      Left |-> t.node, Value |-> v.node]] >>

\* C3: no environment store ever maps a name to a ReturnValue or an Error.
C3_NoSentinelStored ==
    \A e \in DOMAIN heap.envs :
        \A name \in DOMAIN heap.envs[e].store :
            heap.envs[e].store[name].Type \notin {"RETURN_VALUE", "ERROR"}

\* C4: evaluation of a program that parsed without error never panics: Eval
\* returns an Object or an Error.
C4_EvalNeverPanics == pc # "panic"

\* C5: when a sub-expression or statement evaluates to an Error, the
\* enclosing evaluation returns that Error and no later sibling takes
\* effect: nothing is printed and nothing is bound.
C5_ShortCircuitOnError ==
    (input \in ShortCircuitSources /\ Ended) =>
        /\ result = newError("identifier not found: foo")
        /\ heap.out = <<>>
        /\ \A e \in DOMAIN heap.envs : DOMAIN heap.envs[e].store = {}

\* C6: in the body of a called function, a Return under any depth of If
\* blocks stops every enclosing block: no statement after the Return or
\* after an enclosing If is evaluated, the outermost If yields the
\* ReturnValue itself, and the call yields the returned value, which the
\* caller binds and after which the caller goes on.  When the Ifs are not
\* taken the body runs to its own Return.
C6_ReturnUnwinds ==
    \A d \in 0..MaxDepth, c \in ReturnArgs :
        (input = ReturnSrc(d, c.text) /\ pc = "done") =>
            \E taken \in {d = 0 \/ isTruthy(c.obj)} :
                /\ heap.envs[RootEnv].store["r"] =
                       (IF taken THEN c.obj ELSE Integer(2))
                /\ heap.out = (IF taken THEN <<"8">>
                               ELSE <<ToString(d), "0", "8">>)
                /\ (taken /\ d > 0) =>
                       \E b \in {Eval(heap.envs[RootEnv].store["f"].Body.Statements[1],
                                      2, heap)} :
                           /\ b.v.Type = "RETURN_VALUE"
                           /\ b.v.Value = c.obj
                           /\ b.h.out = heap.out

\* a Return under MaxDepth If blocks has unwound to the call, and the caller
\* has bound the returned value
C6_Witness ==
    \E c \in ReturnArgs :
        /\ isTruthy(c.obj)
        /\ input = ReturnSrc(MaxDepth, c.text)
        /\ pc = "done"
        /\ heap.envs[RootEnv].store["r"] = c.obj
        /\ heap.out = <<"8">>

\* the environments of the heap whose own store holds the name
Holders(name) == { e \in DOMAIN heap.envs : name \in DOMAIN heap.envs[e].store }

\* C7: an Assignment to the identifier x, evaluated in the environment of
\* the innermost of d nested calls, overwrites x in the innermost environment
\* of the chain that holds x, which is the environment of depth b where x
\* was declared, and in no other; when no environment of the chain holds x
\* the result is an Error and no binding is created.
C7_AssignmentWritesOwner ==
    \A pl \in AssignPlaces, v \in AssignedValues :
        (program = AssignProgram(pl[1], pl[2], v.node) /\ Ended) =>
            IF pl[2] >= 0
            THEN /\ Holders("x") = {pl[2] + 1}
                 /\ heap.envs[pl[2] + 1].store["x"] = v.obj
            ELSE /\ Holders("x") = {}
                 /\ result.Type = "ERROR"

\* the value of  a op b  at the end of the run of that source
InfixResultIs(a, op, b, obj) ==
    (input = InfixSrc(a.text, op, b.text) /\ Ended) => result = obj

\* C8 as claimed: for each of the eight infix operators and every pair of
\* operands of different types, the result is the Error
\* type mismatch: A op B.
C8_MismatchIsError ==
    \A a \in Operands, b \in Operands, op \in InfixOperators :
        a.type # b.type =>
            InfixResultIs(a, op, b,
                newError("type mismatch: " \o a.type \o " " \o Str(op)
                         \o " " \o b.type))

\* C8 as amended: for + - * / < > and every pair of operands of different
\* types the result is the Error  type mismatch: A op B;  for == the result
\* is the Boolean false and for != the Boolean true.
C8_MismatchIsErrorButForEquality ==
    \A a \in Operands, b \in Operands, op \in InfixOperators :
        a.type # b.type =>
            InfixResultIs(a, op, b,
                CASE Str(op) = "==" -> FALSE_OBJ
                  [] Str(op) = "!=" -> TRUE_OBJ
                  [] OTHER -> newError("type mismatch: " \o a.type \o " "
                                       \o Str(op) \o " " \o b.type))

\* an Integer was compared with a String by == and the result is false
C8_Witness ==
    /\ input = InfixSrc(<<"0">>, <<"=","=">>, <<"\"","s","\"">>)
    /\ pc = "done"
    /\ result = FALSE_OBJ

\* C9 as claimed: a parameter without an argument is unbound during the
\* call and its name evaluates to the Error  identifier not found,  also
\* when the captured environment binds that name.
C9_MissingParameterNotFound ==
    \A k \in 0..MaxArgs :
        k < 2 =>
            /\ \A pre \in ArgPres :
                  (input = ArgSrc(pre.text, k) /\ Ended) =>
                      result = newError("identifier not found: b")
            /\ (input = ClosureArgSrc(k) /\ Ended) =>
                  result = newError("identifier not found: b")

\* C9 as amended: a parameter without an argument gets no binding in the
\* environment of the call, so its name resolves as a free name of the
\* body: to the builtin of that name, else to the binding of the nearest
\* environment of the captured chain that holds it, else to the Error
\* identifier not found.  Extra arguments are ignored and no call is an
\* arity error.
C9_MissingParameterResolvesOutward ==
    \A k \in 0..MaxArgs :
        /\ \A pre \in ArgPres :
              (input = ArgSrc(pre.text, k) /\ Ended) =>
                  /\ pc = "done"
                  /\ result = (IF k >= 2 THEN Integer(12)
                               ELSE IF pre.binds THEN Integer(5)
                               ELSE newError("identifier not found: b"))
        /\ (input = ClosureArgSrc(k) /\ Ended) =>
              /\ pc = "done"
              /\ result = (IF k >= 2 THEN Integer(12) ELSE Integer(7))
        /\ (input = BuiltinParamSrc(k) /\ Ended) =>
              /\ pc = "done"
              /\ result = Builtin("len")

\* the function was called with one argument of two and the name of the
\* second parameter gave the binding of the captured environment
C9_Witness ==
    /\ input = ArgSrc(<<"l","e","t"," ","b"," ","="," ","5",";"," ">>, 1)
    /\ pc = "done"
    /\ result = Integer(5)
    /\ "b" \notin DOMAIN heap.envs[2].store
    /\ heap.envs[2].store["a"] = Integer(11)

\* C10: whenever the lexer emits an ILLEGAL token before the first EOF, in
\* whatever position of the text (each text of IllegalSources has one),
\* ParseProgram ends with a non-empty error list.
C10_IllegalTokenRejected ==
    (/\ input \in IllegalSources
     /\ \E i \in DOMAIN Tokenize(input) : Tokenize(input)[i].Type = "ILLEGAL"
     /\ pc # "parse") => errors # <<>>

\* C11: an identifier that is no builtin name and that no environment of
\* the chain binds evaluates to the Error  identifier not found: <name>,
\* under any depth of calls; the run does not panic, the result is not Null
\* and no environment gets a binding of the name.
C11_UnboundIsError ==
    \A n \in UnboundNames, d \in 0..MaxChain :
        (input = UnboundSrc(n, 0, d) /\ Ended) =>
            /\ pc = "done"
            /\ result = newError("identifier not found: " \o Str(n))
            /\ Holders(Str(n)) = {}

\* the name foo was looked up under MaxChain calls, through the whole chain
C11_Witness ==
    /\ input = UnboundSrc(<<"f","o","o">>, 0, MaxChain)
    /\ pc = "done"
    /\ result = newError("identifier not found: foo")
    /\ Len(heap.envs) = MaxChain + 1
    /\ heap.envs[MaxChain + 1].outer = MaxChain

\* C12: a Let whose value evaluates without error writes the binding into
\* the store of the environment it is evaluated in and yields Null; after
\* any number of Lets of one name the store holds the value of the most
\* recent one and the lookup yields it; a Let in the environment of a call
\* leaves the binding of that name in the enclosing environment unchanged.
C12_LetWritesHere ==
    /\ \A vs \in LetSeqs :
          (input = LetSrc(vs) /\ pc # "parse") =>
              /\ pc \in {"eval", "done"}
              /\ \A i \in 1..Len(vs) :
                    idx = i =>
                        /\ result = NULL
                        /\ DOMAIN heap.envs[RootEnv].store = {"x"}
                        /\ heap.envs[RootEnv].store["x"] = vs[i].obj
              /\ idx = Len(vs) + 1 => result = vs[Len(vs)].obj
    /\ \A v \in ReturnArgs, w \in ReturnArgs :
          (input = LetInCallSrc(v.text, w.text) /\ Ended) =>
              /\ pc = "done"
              /\ result = v.obj
              /\ heap.envs[RootEnv].store["x"] = v.obj
              /\ heap.envs[RootEnv].store["r"] = w.obj
              /\ heap.envs[2].store = ("x" :> w.obj)

\* MaxLets Lets of x in a row, of different values, and the lookup after
\* them has given the last value
C12_Witness ==
    \E vs \in LetSeqs :
        /\ Len(vs) = MaxLets
        /\ vs[1].obj # vs[MaxLets].obj
        /\ input = LetSrc(vs)
        /\ pc = "done"
        /\ result = vs[MaxLets].obj

\* C13: indexing an Array of n elements with the Integer i yields the
\* element at position i when 0 <= i < n and Null, not an Error, when i < 0
\* or i >= n, the empty array included.
C13_ArrayIndexInRangeOrNull ==
    \A n \in 0..MaxElems, i \in -2..(MaxElems + 1) :
        (input = IndexSrc(n, i) /\ Ended) =>
            /\ pc = "done"
            /\ result = (IF 0 <= i /\ i < n THEN Integer(11 + i) ELSE NULL)

\* an array of MaxElems elements was indexed one past its last element
C13_Witness ==
    /\ input = IndexSrc(MaxElems, MaxElems)
    /\ pc = "done"
    /\ result = NULL
    /\ Len(heap.envs[RootEnv].store["arr"].Elements) = MaxElems

\* C14: the identifier len or push evaluates to the Builtin object after a
\* Let of that name, under any depth of calls, and in a function whose
\* parameter has that name: the binding is in the store and the lookup of
\* the identifier never yields it.
C14_BuiltinsWin ==
    \A n \in ShadowedNames :
        /\ \A d \in 0..MaxChain :
              (input = ShadowLetSrc(n, d) /\ Ended) =>
                  /\ pc = "done"
                  /\ result = Builtin(Str(n))
                  /\ heap.envs[RootEnv].store[Str(n)] = Integer(5)
        /\ (input = ShadowParamSrc(n) /\ Ended) =>
              /\ pc = "done"
              /\ result = Builtin(Str(n))
              /\ heap.envs[2].store[Str(n)] = Integer(5)

\* len was bound by a Let and then looked up in the root environment
C14_Witness ==
    /\ input = ShadowLetSrc(<<"l","e","n">>, 0)
    /\ pc = "done"
    /\ result = Builtin("len")
    /\ heap.envs[RootEnv].store["len"] = Integer(5)

\* C16: o.name on an Instance yields the entry of the instance's own
\* property map when it has one (a property set by the constructor or by a
\* later assignment, a copied-in method), else the method of the instance's
\* own class as a BoundMethod of the instance, else the Error  property name
\* not found;  the superclass is not consulted, so the name of a method of
\* the superclass only yields the Error.
C16_PropertyResolution ==
    \A w \in PropertyWrites, n \in PropertyNames :
        (program = PropertyProgram(w, n) /\ Ended) =>
            \E inst \in {heap.insts[1]} :
                /\ pc = "done"
                /\ DOMAIN inst.Class.SuperClass.Methods = {"m"}
                /\ IF n \in DOMAIN inst.Properties
                   THEN /\ result = inst.Properties[n]
                        /\ result = (CASE n = w   -> Integer(4)
                                       [] n = "p" -> Integer(3)
                                       [] OTHER   ->
                                           [inst.Class.Methods[n] EXCEPT
                                               !.id = result.id])
                   ELSE IF n \in DOMAIN inst.Class.Methods
                   THEN /\ result.Type = "BOUND_METHOD"
                        /\ result.Method = inst.Class.Methods[n]
                        /\ result.Instance = [Type |-> "INSTANCE", ref |-> 1]
                   ELSE /\ n \in {"m", "q", "z"}
                        /\ result = newError("property " \o n \o " not found")

\* the name of a method of the superclass only was read on the instance
C16_Witness ==
    /\ program = PropertyProgram("none", "m")
    /\ pc = "done"
    /\ result = newError("property m not found")
    /\ "m" \in DOMAIN heap.insts[1].Class.SuperClass.Methods
    /\ DOMAIN heap.insts[1].Properties = {"p", "k", "constructor"}

\* C17: a New whose target evaluates to a Class yields the new Instance
\* whatever the constructor body returns, and the Error of the constructor
\* body when it evaluates to one; in the environment of the constructor
\* this is the new instance and super is the superclass exactly when the
\* class has one; a target that is no Class yields an Error.
C17_NewYieldsInstanceOrError ==
    \A sup \in BOOLEAN, body \in ConstructorBodies, target \in NewTargets :
        (program = NewProgram(sup, body, target) /\ Ended) =>
            /\ pc = "done"
            /\ IF target = "C"
               THEN /\ result = (IF body.is = "error"
                                 THEN newError("identifier not found: foo")
                                 ELSE [Type |-> "INSTANCE", ref |-> 1])
                    /\ body.is # "none" =>
                          \E store \in {heap.envs[Len(heap.envs)].store} :
                              /\ store["this"] = [Type |-> "INSTANCE", ref |-> 1]
                              /\ "super" \in DOMAIN store <=> sup
                              /\ sup => store["super"] = heap.envs[RootEnv].store["A"]
               ELSE /\ result.Type = "ERROR"
                    /\ heap.insts = <<>>

\* C18: a map literal stores a pair under the printed form of its key, so
\* indexing the Hash with any object of the same printed form (the Integer
\* 5 and the String "5") yields the stored value, and indexing it with an
\* object of another printed form yields Null.
C18_HashKeyIsPrintedForm ==
    \A k \in HashKeys, i \in HashKeys :
        (input = HashSrc(k.text, i.text) /\ Ended) =>
            /\ pc = "done"
            /\ result = (IF k.printed = i.printed THEN Integer(1) ELSE NULL)

\* the pair stored under the Integer 5 was read with the String "5"
C18_Witness ==
    /\ input = HashSrc(<<"5">>, <<"\"","5","\"">>)
    /\ pc = "done"
    /\ result = Integer(1)

\* C19: the body of a called function resolves a free name in the
\* environment the function literal was evaluated in, as that environment
\* is at the time of the call: a binding made or changed there after the
\* function was created is the one found, and a binding of the caller's
\* environment is never found.
C19_LexicalScope ==
    /\ \A early \in BOOLEAN, late \in BOOLEAN, c \in ScopeCallers :
          (input = ScopeSrc(early, late, c.text) /\ Ended) =>
              /\ pc = "done"
              /\ result = (IF late THEN Integer(2)
                           ELSE IF early THEN Integer(1)
                           ELSE newError("identifier not found: x"))
    /\ \A c \in ClosureSources :
          (input = c.text /\ Ended) => (pc = "done" /\ result = c.obj)

\* f was created before the root environment bound x and was called from a
\* function that binds x itself: the name gave the later root binding
C19_Witness ==
    \E c \in ScopeCallers :
        /\ c.is = "param"
        /\ input = ScopeSrc(FALSE, TRUE, c.text)
        /\ pc = "done"
        /\ result = Integer(2)
        /\ heap.envs[2].store["x"] = Integer(5)

\* C20: push(array, value) yields a new Array of the elements of array
\* followed by value and leaves array as it was: after any of the pushes
\* the binding a, the element of w that is a, and the result b of an earlier
\* push that was pushed onto in turn hold their original elements.
C20_PushCopies ==
    \A n \in 0..MaxElems, k \in 0..3 :
        (input = PushSrc(n, k) /\ Ended) =>
            \E store \in {heap.envs[RootEnv].store},
               orig \in {[i \in 1..n |-> Integer(10 + i)]} :
                /\ pc = "done"
                /\ result = store["a"]
                /\ store["a"].Elements = orig
                /\ store["w"].Elements = <<store["a"]>>
                /\ k >= 1 => /\ store["b"].Type = "ARRAY"
                             /\ store["b"].Elements = Append(orig, Integer(5))
                             /\ store["b"].id # store["a"].id
                /\ k >= 2 => /\ store["c"].Elements =
                                    orig \o <<Integer(5), Integer(6)>>
                             /\ store["c"].id \notin {store["a"].id, store["b"].id}
                /\ k >= 3 => store["d"].Elements = Append(orig, Integer(7))

\* three pushes were made, two of them onto a, and a has its MaxElems
\* elements
C20_Witness ==
    /\ input = PushSrc(MaxElems, 3)
    /\ pc = "done"
    /\ Len(result.Elements) = MaxElems
    /\ Len(heap.envs[RootEnv].store["d"].Elements) = MaxElems + 1

\* what a run can observe of an object: its printed form
Printed(obj) == IF obj = NilObject THEN "<nil>" ELSE Inspect(obj)

\* the result and the printed root bindings of a run of the first i
\* statements of the program on its own
Alone(i) ==
    CHOOSE ret \in
        { [result |-> Printed(r.v),
           store |-> [n \in DOMAIN r.h.envs[RootEnv].store |->
                         Printed(r.h.envs[RootEnv].store[n])]] :
          r \in {evalProgramLoop(SubSeq(program.Statements, 1, i), 1, RootEnv,
                                 NewEnvironment(EmptyHeap).h, NilObject)} } : TRUE

\* the same of a run that has its root environment env in the shared heap
Seen(res, env) ==
    [result |-> Printed(res),
     store |-> [n \in DOMAIN heap.envs[env].store |->
                   Printed(heap.envs[env].store[n])]]

Level(op) ==
    CASE op.type \in {"EQ", "NOT_EQ"}      -> 2
      [] op.type \in {"LT", "GT"}          -> 3
      [] op.type \in {"PLUS", "MINUS"}     -> 4
      [] op.type \in {"ASTERISK", "SLASH"} -> 5

\* the operator applied last: the rightmost one of the lowest level
Root(ops) ==
    CHOOSE k \in 1..Len(ops) :
        \A j \in 1..Len(ops) :
            \/ Level(ops[k]) < Level(ops[j])
            \/ Level(ops[k]) = Level(ops[j]) /\ j <= k

RECURSIVE Nested(_, _)
\* the tree in which equal levels nest to the left and a higher level
\* takes its operands first
Nested(xs, ops) ==
    IF ops = <<>> THEN xs[1].tree
    ELSE InfixExpression(Str(ops[Root(ops)].text),
             Nested(SubSeq(xs, 1, Root(ops)), SubSeq(ops, 1, Root(ops) - 1)),
             Nested(SubSeq(xs, Root(ops) + 1, Len(xs)),
                    SubSeq(ops, Root(ops) + 1, Len(ops))))

\* each chain expression: its text and the tree the levels give it
ChainCases == { [src |-> ChainSrc(e.xs, e.ops), tree |-> Nested(e.xs, e.ops),
                 ops |-> e.ops] : e \in ChainExprs }

\* C21: for every expression built from operands and the binary operators
\* + - * / < > == !=, ParseProgram reports no error and builds the tree in
\* which operators of one level nest to the left and an operator of a
\* higher level (EQUALS < LESSGREATER < SUM < PRODUCT < PREFIX <
\* call/index/dot) takes its operands before a lower-level neighbour.
C21_PrecedenceNesting ==
    \A c \in ChainCases :
        (input = c.src /\ pc # "parse") =>
            /\ errors = <<>>
            /\ program.Statements = <<ExpressionStatement(c.tree)>>

\* p - q - r has been parsed: two operators of one level
C21_Witness ==
    /\ input = <<"p"," ","-"," ","q"," ","-"," ","r">>
    /\ pc # "parse"
    /\ program.Statements =
          <<ExpressionStatement(
               InfixExpression("-",
                   InfixExpression("-", Identifier("p"), Identifier("q")),
                   Identifier("r")))>>

(***************************************************************************)
(* ParseProgram one iteration of its statement loop at a time.             *)
(***************************************************************************)
\* texts whose every prefix is parsed: the cut leaves tokens missing,
\* strings and comments open, and brackets unclosed
ParseTexts ==
    { <<"l","e","t"," ","f"," ","="," ","f","u","n","c","(","a",","," ","b",")"," ","{"," ","r",
            "e","t","u","r","n"," ","a"," ","+"," ","b",";"," ","}",";"," ","f","(","1",","," ",
            "2",")">>,
      <<"i","f"," ","(","x"," ","<"," ","1",")"," ","{"," ","{","1",":"," ","2",","," ","\"",
              "k","\"",":"," ","[","3",","," ","4","]","}"," ","}"," ","e","l","s","e"," ","{",
              " ","!","y",".","m","[","0","]"," ","}">>,
      <<"x"," ","y"," ","{"," ","l","e","t"," ","m"," ","="," ","f","u","n","c","(","s",")"," ",
              "{"," ","1"," ","}"," ","l","e","t"," ","="," ","3"," ","l","e","t"," ","k"," ",
              "4"," ","l","e","t"," ","n"," ","="," ","5"," ","}"," ","z">>,
      <<"p","r","i","n","t","(","\"","a","\""," ","+"," ","/","*"," ","c"," ","*","/"," ","1",
              ")"," ","/","/"," ","t">> }

\* texts with unexpected, missing and ILLEGAL tokens
BrokenTexts ==
    { <<"l","e","t"," ","="," ","5",";"," ","1">>, <<"l","e","t"," ","x"," ","5",";"," ","2"
            >>, <<"1"," ","+"," ",";"," ","3">>, <<")"," ","}"," ","]"," ",","," ",":"," ",".",
            " ",";">>, <<"@"," ","#"," ","$"," ","~">>,
      <<"{","1"," ","2","}"," ","4">>, <<"{","1",":"," ","2"," ","3",":"," ","4","}">>, <<"f",
              "(","a"," ","b",")"," ","c">>, <<"f","(",","," ","a",")">>, <<"[","1",","," ",",",
              " ","2","]">>,
      <<"i","f"," ","x"," ","{"," ","1"," ","}">>, <<"i","f"," ","(","x",")"," ","1"," ","e",
              "l","s","e"," ","2">>, <<"f","u","n","c"," ","a"," ","{"," ","}">>, <<"a","."," ",
              "1">>, <<"a","[","1"," ","2">>,
      <<"x"," ","y"," ","{"," ","l","e","t"," ","l","e","t"," ","m"," ","="," ","1"," ","f","u",
              "n","c"," ","}"," ","1">>, <<"x"," ","y"," ","z">>, <<"}">>, <<"{">>, <<"{"," ",
              "{"," ","{">> }

ParseSources ==
    BrokenTexts
        \cup UNION { { SubSeq(s, 1, n) : n \in 0..Len(s) } : s \in ParseTexts }

\* p := parser.New(lexer.New(input)); program.Statements = []ast.Statement{}
InitParse ==
    /\ input \in ParseSources
    /\ parser = ParserNew(LexerNew(input))
    /\ program = [kind |-> "Program", Statements |-> <<>>]
    /\ errors = <<>>
    /\ heap = EmptyHeap
    /\ result = NilObject
    /\ idx = 0
    /\ pc = "parsing"
    /\ second = NoRun
    /\ lexer = NoLexer

\* one iteration of the statement loop of ParseProgram
ParseStatementStep ==
    /\ pc = "parsing"
    /\ parser.curToken.Type # "EOF"
    /\ \E r \in {ParseProgramIter(parser, program.Statements)} :
           /\ parser' = r.p
           /\ program' = [program EXCEPT !.Statements = r.stmts]
    /\ UNCHANGED <<input, errors, heap, result, idx, pc, second, lexer>>

\* the loop ends at EOF: ParseProgram returns program, main reads p.Errors()
ParseReturn ==
    /\ pc = "parsing"
    /\ parser.curToken.Type = "EOF"
    /\ pc' = "parsed"
    /\ errors' = parser.errors
    /\ UNCHANGED <<input, program, heap, result, idx, second, lexer, parser>>

NextParse == ParseStatementStep \/ ParseReturn

\* ParseProgram is one uninterrupted call: its loop keeps being run
SpecParse == InitParse /\ [][NextParse]_vars /\ WF_vars(NextParse)

\* the tokens before EOF that the parser has not passed, curToken included
Remaining(p) ==
    IF curTokenIs(p, "EOF") THEN 0
    ELSE IF peekTokenIs(p, "EOF") THEN 1
    ELSE 1 + Len(TokensFrom(p.l))

RECURSIVE ParserAt(_, _)
\* the parser of a text after k further calls of nextToken
ParserAt(in, k) ==
    IF k = 0 THEN ParserNew(LexerNew(in)) ELSE nextToken(ParserAt(in, k - 1))

\* an inner loop that starts at parser q and ends at parser p has collected
\* no more items than it has passed tokens
Within(items, q, p) == Len(items) <= Remaining(q) - Remaining(p)

\* the block, class body, object literal and expression list loops, each
\* started at parser q
InnerLoopsAdvance(q) ==
    /\ \A r \in {parseBlockStatement(q)} : Within(r.node.Statements, q, r.p)
    /\ \A r \in {parseClassBody(q, <<>>)} : Within(r.ms, q, r.p)
    /\ \A r \in {parseObjectPairs(q, <<>>)} : Within(r.pairs, q, r.p)
    /\ \A end \in {"RPAREN", "RBRACKET"} :
           \A r \in {parseExpressionList(q, end)} : Within(r.args, q, r.p)

\* C22: for every text, also with unexpected, missing and ILLEGAL tokens,
\* every iteration of the statement loop of ParseProgram passes at least
\* one token; the loop ends, and only at EOF, where ParseProgram returns
\* the Program with the accumulated error list; and every inner loop (block, class
\* body, object literal, expression list), wherever in the token stream it
\* starts, ends having passed at least one token for each item collected.
C22_ParseTerminates ==
    /\ [][ \/ pc' = "parsing" /\ Remaining(parser') < Remaining(parser)
           \/ pc' = "parsed" /\ curTokenIs(parser, "EOF")
                /\ errors' = parser.errors ]_vars
    /\ [](pc = "parsed" =>
            \A k \in 0..Remaining(ParserAt(input, 0)) :
                InnerLoopsAdvance(ParserAt(input, k)))
    /\ <>(pc = "parsed")

\* a Let without its  =  has been parsed to the end with one error
C22_Witness ==
    /\ input = <<"l","e","t"," ","x"," ","5",";"," ","2">>
    /\ pc = "parsed"
    /\ Len(errors) = 1
    /\ Len(program.Statements) = 3

(***************************************************************************)
(* The lexer alone: NextToken called again and again on one Lexer.         *)
(***************************************************************************)
\* texts whose every prefix is read: the cut leaves a string or a block
\* comment open, or an operator of two characters halved
LexTexts ==
    { <<"l","e","t"," ","x"," ","="," ","\"","a","b","\""," ","/","*"," ","c","*"," ","*","/",
            " ","/","/"," ","d","\n","1"," ","=","="," ","2"," ","!","="," ","@"," ","!">>,
      <<" ","\"","\""," ","/","*","*","/"," ","/","*"," ","/"," ","*"," ","*","/"," ","a","_",
              "b"," ","1","0"," ","/">>,
      <<"f","(","a",")","[","0","]",".","b",";"," ","{","1",":"," ","-","2","}"," ","<"," ",">",
              " ","*"," ","+"," ",",">> }

\* texts that hold the byte 0
NulTexts == { <<"a", NUL, "b">>, <<NUL>>, <<"\"", NUL, "\"", "1">> }

LexSources ==
    NulTexts \cup UNION { { SubSeq(s, 1, n) : n \in 0..Len(s) } : s \in LexTexts }

\* the calls of NextToken made after the one that first returned EOF
MaxEofCalls == 2

\* l := lexer.New(input)
InitLex ==
    /\ input \in LexSources
    /\ lexer = [l |-> LexerNew(input), tok |-> NewToken("ILLEGAL", <<>>, 0),
                calls |-> 0]
    /\ parser = NoParser
    /\ program = NilNode
    /\ errors = <<>>
    /\ heap = EmptyHeap
    /\ result = NilObject
    /\ idx = 0
    /\ pc = "lexing"
    /\ second = NoRun

\* tok := l.NextToken()
NextTokenStep ==
    /\ pc = "lexing"
    /\ lexer.l.position < Len(input) + MaxEofCalls
    /\ \E r \in {NextToken(lexer.l)} :
           lexer' = [l |-> r.l, tok |-> r.tok, calls |-> lexer.calls + 1]
    /\ UNCHANGED <<input, program, errors, heap, result, idx, pc, second, parser>>

NextLex == NextTokenStep

\* the caller keeps calling NextToken
SpecLex == InitLex /\ [][NextLex]_vars /\ WF_vars(NextTokenStep)

\* C23: for every input, also one that ends inside a string or a block
\* comment, the calls of NextToken come to return an EOF token, and a call
\* that follows one that returned EOF returns EOF again.
C23_EofReachedAndKept ==
    /\ <>(lexer.calls > 0 /\ lexer.tok.Type = "EOF")
    /\ [][(lexer.calls > 0 /\ lexer.tok.Type = "EOF")
              => lexer'.tok.Type = "EOF"]_vars

\* the condition's value is Null or Boolean false
NullOrFalse(c) == c.type = "NULL" \/ (c.type = "BOOLEAN" /\ ~c.value)

\* what the If has done: the block that printed, and the value of the If
IfTook(printed, value) == heap.out = printed /\ result = value

\* C24 as stated: an If evaluates its consequence exactly when the
\* condition's value is neither Null nor Boolean false, else its alternative
\* when it has one, and else yields Null.
C24_IfByTruthiness ==
    \A c \in IfConditions, alt \in BOOLEAN :
        (input = IfSrc(c.text, alt) /\ Ended) =>
            IF ~NullOrFalse(c) THEN IfTook(<<"1">>, Integer(10))
            ELSE IF alt THEN IfTook(<<"2">>, Integer(20))
            ELSE IfTook(<<>>, NULL)

\* C24 amended: a condition whose value is an Error makes the If yield that
\* Error and evaluate neither block; every other condition makes the If
\* evaluate its consequence exactly when the condition's value is neither
\* Null nor Boolean false (Integer 0 and the empty String make it evaluate
\* the consequence), else its alternative when it has one, and else yield
\* Null; never are both blocks evaluated.
C24_IfByTruthinessUnlessError ==
    \A c \in IfConditions, alt \in BOOLEAN :
        (input = IfSrc(c.text, alt) /\ Ended) =>
            IF c.type = "ERROR" THEN heap.out = <<>> /\ isError(result)
            ELSE IF ~NullOrFalse(c) THEN IfTook(<<"1">>, Integer(10))
            ELSE IF alt THEN IfTook(<<"2">>, Integer(20))
            ELSE IfTook(<<>>, NULL)

\* the If on Integer 0 has evaluated its consequence
C24_Witness ==
    /\ input = IfSrc(<<"0">>, TRUE)
    /\ pc = "done"
    /\ IfTook(<<"1">>, Integer(10))

RECURSIVE Decimal(_, _)
\* the decimal value of a digit run, the digits before it having value acc
Decimal(cs, acc) ==
    IF cs = <<>> THEN acc ELSE Decimal(Tail(cs), 10 * acc + DigitVal(Head(cs)))

\* C27: the INT token of a digit run, leading zeros included, parses
\* without error to the IntegerLiteral, and evaluates to the Integer, whose
\* value is the decimal value of the run.
C27_DigitRunIsDecimal ==
    \A d \in DigitRuns :
        (input = d /\ pc # "parse") =>
            /\ errors = <<>>
            /\ program.Statements =
                  <<ExpressionStatement(IntegerLiteral(Decimal(d, 0)))>>
            /\ pc = "done" => result = Integer(Decimal(d, 0))

\* the objects held by the environments and by the instances
Stored ==
    UNION { { heap.envs[e].store[n] : n \in DOMAIN heap.envs[e].store } :
              e \in DOMAIN heap.envs }
    \cup UNION { { heap.insts[i].Properties[n] : n \in DOMAIN heap.insts[i].Properties } :
                   i \in DOMAIN heap.insts }

\* C28: in every state, after its construction and after any run of
\* property assignments, the property map of every Instance holds every
\* method name of its class; no BoundMethod is the result of a statement
\* or is stored anywhere; and the call  o.k()  of a method  k  got by
\* property access runs in an environment in which the call has bound no
\* `this`, so that the `this` in its body is not found.
C28_MethodsAreOwnProperties ==
    /\ \A i \in DOMAIN heap.insts :
           DOMAIN heap.insts[i].Class.Methods \subseteq DOMAIN heap.insts[i].Properties
    /\ result = NilObject \/ result.Type # "BOUND_METHOD"
    /\ \A obj \in Stored : obj = NilObject \/ obj.Type # "BOUND_METHOD"
    /\ \A ws \in WriteRuns :
           (program = MethodProgram(ws) /\ Ended) =>
               /\ pc = "done"
               /\ \A i \in 1..Len(ws) : heap.insts[1].Properties[ws[i]] = Integer(4)
               /\ IF \E i \in 1..Len(ws) : ws[i] = "k"
                  THEN isError(result) /\ Len(heap.envs) = 2
                  ELSE /\ result = newError("'this' not found in current context")
                       /\ Len(heap.envs) = 3
                       /\ "this" \notin DOMAIN heap.envs[3].store
                       /\ heap.envs[2].store["this"] = [Type |-> "INSTANCE", ref |-> 1]

\* the method k, got from the instance after two assignments to other
\* properties, has been called
C28_Witness ==
    /\ program = MethodProgram(<<"q", "p">>)
    /\ pc = "done"
    /\ DOMAIN heap.insts[1].Properties = {"k", "constructor", "p", "q"}
    /\ Len(heap.envs) = 3
    /\ result = newError("'this' not found in current context")

\* a statement that is the call of a named function on names and literals:
\* evaluating it does nothing but the call
CallStatement(s) ==
    /\ s.kind = "ExpressionStatement"
    /\ s.Expression.kind = "CallExpression"
    /\ s.Expression.Function.kind = "Identifier"
    /\ \A i \in DOMAIN s.Expression.Arguments :
           s.Expression.Arguments[i].kind \in {"Identifier", "IntegerLiteral"}

\* C29: the call of a function leaves every environment that existed
\* before the call as it was, store and outer environment: what the binding
\* of the parameters and the Let, Assignment and Class statements of the
\* body, and of the functions the body calls, write goes to environments
\* made by the call.
C29_CallKeepsStores ==
    [][ (pc = "eval" /\ idx < Len(program.Statements)
                    /\ CallStatement(program.Statements[idx + 1]))
          => \A e \in DOMAIN heap.envs :
                 /\ e \in DOMAIN heap'.envs
                 /\ heap'.envs[e] = heap.envs[e] ]_vars

\* f(7) has bound its parameter x, and its body has run a Let of x, the
\* call of g and an assignment to a property of o
C29_Witness ==
    /\ program = FrameProgram(<<"x">>, CHOOSE b \in FrameBodies : b.is = "all")
    /\ pc = "done"
    /\ Len(heap.envs) = 3
    /\ heap.envs[RootEnv].store["x"] = Integer(1)
    /\ heap.envs[2].store["x"] = Integer(2)
    /\ heap.envs[3].store["x"] = Integer(3)
    /\ heap.envs[2].store["o"] = Integer(3)
    /\ heap.insts[1].Properties["p"] = Integer(4)


(***************************************************************************)
(* The run of the JavaScript implementation: exports.Interpreter(code)     *)
(* lexes and parses the code, then evaluates the statements of the program *)
(* in turn and returns the value of the last one.  Here input is the code, *)
(* program the AST, heap the environments (heap[1] is global), result the  *)
(* variable last, and errors the exception that ended the run.             *)
(***************************************************************************)
\* the program of index.js
SampleCode ==
    Cat(<< <<"\n"," "," "," "," "," "," "," "," ","l","e","t"," ","x"," ","="," ","1","0",";",
            "\n"," "," "," "," "," "," "," "," ","l","e","t"," ","y"," ","="," ","5",";","\n">>,
           <<" "," "," "," "," "," "," "," ","f","u","n","c","t","i","o","n"," ","a","d","d",
                   "(","a",","," ","b",")"," ","="," ","a"," ","+"," ","b",";","\n">>,
           <<" "," "," "," "," "," "," "," ","a","d","d","(","x",","," ","y",")"," ","=","=",
                   " ","1","5"," ","&","&"," ","t","r","u","e",";","\n"," "," "," "," ">> >>)

\* the same program on one line
SampleLine ==
    Cat(<< <<"l","e","t"," ","x"," ","="," ","1","0",";"," ","l","e","t"," ","y"," ","="," ",
            "5",";"," ","f","u","n","c","t","i","o","n"," ","a","d","d","(","a",","," ","b",")",
            " ","="," ","a"," ","+"," ","b",";"," ">>,
           <<"a","d","d","(","x",","," ","y",")"," ","=","="," ","1","5"," ","&","&"," ","t",
                   "r","u","e",";">> >>)

\* operands: their text and their value
NumberOperands ==
    { [text |-> <<"1">>, value |-> 1], [text |-> <<"2">>, value |-> 2],
      [text |-> <<"3">>, value |-> 3], [text |-> <<"4">>, value |-> 4] }

LogicOperands ==
    { [text |-> <<"t","r","u","e">>, v |-> JsBoolean(TRUE), truthy |-> TRUE],
      [text |-> <<"f","a","l","s","e">>, v |-> JsBoolean(FALSE), truthy |-> FALSE],
      [text |-> <<"0">>, v |-> JsNumber(0), truthy |-> FALSE],
      [text |-> <<"5">>, v |-> JsNumber(5), truthy |-> TRUE] }

SumCases ==
    { [a |-> a, b |-> b, c |-> c, d |-> d] :
        a \in {n \in NumberOperands : n.value <= 2},
        b \in {n \in NumberOperands : n.value = 2},
        c \in {n \in NumberOperands : n.value >= 3},
        d \in LogicOperands }

\* a + b == c && d;
SumFirst(e) ==
    Cat(<< e.a.text, <<" ","+"," ">>, e.b.text, <<" ","=","="," ">>, e.c.text, <<" ","&","&"," "
            >>, e.d.text, <<";">> >>)

\* d && c == a + b;
SumLast(e) ==
    Cat(<< e.d.text, <<" ","&","&"," ">>, e.c.text, <<" ","=","="," ">>, e.a.text, <<" ","+"," "
            >>, e.b.text, <<";">> >>)

\* the sample with other numbers, and with a let after it
SampleCases ==
    { [x |-> x, n |-> n, d |-> d, let |-> let] :
        x \in {n \in NumberOperands : n.value <= 2},
        n \in {n \in NumberOperands : n.value >= 3},
        d \in {d \in LogicOperands : d.v.t = "boolean"},
        let \in BOOLEAN }

SampleWith(e) ==
    Cat(<< <<"l","e","t"," ","x"," ","="," ">>, e.x.text, <<";"," ","l","e","t"," ","y"," ","=",
            " ","2",";"," ","f","u","n","c","t","i","o","n"," ","a","d","d","(","a",","," ","b",
            ")"," ","="," ","a"," ","+"," ","b",";"," ">>,
           <<"a","d","d","(","x",","," ","y",")"," ","=","="," ">>, e.n.text, <<" ","&","&"," "
                   >>, e.d.text, <<";">>,
           IF e.let THEN <<" ","l","e","t"," ","z"," ","="," ","1",";">> ELSE <<>> >>)

\* code that ends in an exception: an identifier at the end of the code, an
\* operator without its operand, a character that is no symbol, a variable
\* and a function that are not defined
ThrowingCodes ==
    { <<"l","e","t"," ","x"," ","="," ","1",";"," ","x">>, <<"1"," ","+">>, <<"1"," ","#"," ",
            "2",";">>, <<"y",";">>, <<"f","(","1",")",";">>, <<"l","e","t"," ","="," ","1",";"
            >>,
      <<"1",";"," ","(","2",";">>, <<"1"," ","="," ","2",";">> }

\* code of the other statements and operators
OtherCodes ==
    { <<>>, <<"l","e","t"," ","a"," ","="," ","6",";"," ","a"," ","="," ","a"," ","/"," ","2",
            " ","-"," ","1"," ","*"," ","2",";"," ","-","a"," ","!","="," ","1"," ","|","|"," ",
            "a",";">>,
      <<"f","u","n","c","t","i","o","n"," ","f","(","a",","," ","a",")"," ","="," ","a",";"," ",
              "f","(","1",")"," ","=","="," ","f","(","1",","," ","2",")"," ",";">>,
      <<"f","u","n","c","t","i","o","n"," ","g","(",")"," ","="," ","b",";"," ","l","e","t"," ",
              "b"," ","="," ","1",";"," ","g","(",")"," ","*"," ","2",";">>,
      <<"f","u","n","c","t","i","o","n"," ","k","(","a",")"," ","="," ","a"," ","+"," ","1",";",
              " ","f","u","n","c","t","i","o","n"," ","m","(","a",")"," ","="," ","k","(","a",
              ")"," ","=","="," ","2",";"," ","m","(","1",")"," ","&","&"," ","k","(","k","(",
              "0",")",")",";">>,
      <<"(","1"," ","+"," ","2",")"," ","*"," ","3"," ","=","="," ","9",";">>, <<"1"," ","/",
              " ","0"," ",";"," ","0"," ","/"," ","0"," ","=","="," ","0"," ","/"," ","0",";"
              >> }

JsSources ==
    {SampleCode, SampleLine} \cup {SumFirst(e) : e \in SumCases}
        \cup {SumLast(e) : e \in SumCases} \cup {SampleWith(e) : e \in SampleCases}
        \cup ThrowingCodes \cup OtherCodes

InitJs ==
    /\ input \in JsSources
    /\ program = <<>>
    /\ errors = <<>>
    /\ heap = << <<>> >>
    /\ result = undefined
    /\ idx = 0
    /\ pc = "code"
    /\ second = NoRun
    /\ lexer = NoLexer
    /\ parser = NoParser

\* const tokens = Lexer(code); const ast = AbstractSyntaxTree(tokens, code);
InterpreterParse ==
    /\ pc = "code"
    /\ \E tokens \in {Lexer(input)} :
          IF ~tokens.ok
          THEN /\ errors' = tokens
               /\ pc' = "thrown"
               /\ UNCHANGED <<program, idx>>
          ELSE \E ast \in {AbstractSyntaxTree(tokens.tokens)} :
                  IF ~ast.ok
                  THEN /\ errors' = ast
                       /\ pc' = "thrown"
                       /\ UNCHANGED <<program, idx>>
                  ELSE /\ program' = ast.program
                       /\ idx' = 1
                       /\ pc' = "evaluating"
                       /\ UNCHANGED errors
    /\ UNCHANGED <<input, heap, result, second, lexer, parser>>

\* one turn of  for (const stmt of program) last = evalNode(stmt)
InterpreterStatement ==
    /\ pc = "evaluating"
    /\ idx <= Len(program)
    /\ \E last \in {evalNode(program[idx], 1, heap)} :
          IF ~last.ok
          THEN /\ errors' = last
               /\ pc' = "thrown"
               /\ UNCHANGED <<heap, result, idx>>
          ELSE /\ result' = last.v
               /\ heap' = last.h
               /\ idx' = idx + 1
               /\ UNCHANGED <<errors, pc>>
    /\ UNCHANGED <<input, program, second, lexer, parser>>

\* return last
InterpreterReturn ==
    /\ pc = "evaluating"
    /\ idx > Len(program)
    /\ pc' = "returned"
    /\ UNCHANGED <<input, program, errors, heap, result, idx, second, lexer, parser>>

NextJs == InterpreterParse \/ InterpreterStatement \/ InterpreterReturn

SpecJs == InitJs /\ [][NextJs]_vars

\* C25: the program of index.js returns the boolean true; the run returns
\* the value of the last top-level statement, where && binds looser than ==
\* and == looser than +: a + b == c && d is ((a + b) == c) && d, and
\* d && c == a + b is d && (c == (a + b)).
C25_SampleReturnsTrue ==
    /\ input \in {SampleCode, SampleLine} =>
          /\ pc # "thrown"
          /\ pc = "returned" => result = JsBoolean(TRUE)
    /\ \A e \in SumCases :
          /\ input = SumFirst(e) =>
                /\ pc # "thrown"
                /\ pc = "returned" =>
                      result = IF e.a.value + e.b.value = e.c.value THEN e.d.v
                               ELSE JsBoolean(FALSE)
          /\ input = SumLast(e) =>
                /\ pc # "thrown"
                /\ pc = "returned" =>
                      result = IF e.d.truthy
                               THEN JsBoolean(e.c.value = e.a.value + e.b.value)
                               ELSE e.d.v
    /\ \A e \in SampleCases :
          input = SampleWith(e) =>
              /\ pc # "thrown"
              /\ pc = "returned" =>
                    result = IF e.let THEN null
                             ELSE IF e.x.value + 2 = e.n.value THEN e.d.v
                             ELSE JsBoolean(FALSE)

C25_Witness ==
    /\ input = SampleCode
    /\ pc = "returned"
    /\ Len(program) = 4
    /\ program[4].type = "AND"
    /\ program[4].left.type = "EQ"
    /\ result = JsBoolean(TRUE)


(***************************************************************************)
(* The run of the templating language: Interpreter(client, code) is        *)
(* Lexer.run, which gives the tokens (program), and AST.run, which gives   *)
(* the string returned (result) and the array output (heap); errors is the *)
(* CodeError that one of the two threw.                                    *)
(***************************************************************************)
\* the code of index.ts
TemplateCode ==
    Cat(<< <<"\n","$","i","f","[","(","m","e","o","w","=","=","m","e","o","w",")","&","&","t",
            "r","u","e","]","\n"," "," "," "," ","B","l","o","c","k"," ","A","\n","$","e","l",
            "s","e","i","f","[","u","w","u","=","=","o","w","o","]","\n"," "," "," "," ","B",
            "l","o","c","k"," ","B","\n">>,
           <<"$","e","l","s","e","\n"," "," "," "," ","F","a","l","l","b","a","c","k"," ","b",
                   "l","o","c","k","\n","$","e","n","d","i","f","\n","\n","$","u","w","u","f",
                   "y","[","H","e","l","l","o",","," ","w","o","r","l","d","!","]","\n">>,
           <<"$","l","o","g","[","F","i","n","i","s","h","e","d"," ","e","x","e","c","u","t",
                   "i","n","g"," ","c","o","d","e","]","\n">> >>)

MaxComment == 3

RECURSIVE Strings(_, _)
\* the strings over an alphabet of at most n characters
Strings(alphabet, n) ==
    IF n = 0 THEN {<<>>}
    ELSE Strings(alphabet, n - 1)
             \cup {Append(s, c) : s \in Strings(alphabet, n - 1), c \in alphabet}

\* code with a block comment that starts after at most one character of text
CommentCodes ==
    { before \o <<"/", "*">> \o after :
        before \in Strings({"a", "*"}, 1), after \in Strings({"a", "*", "/"}, MaxComment) }

MaxPieces == 4

\* the pieces that code of conditionals is made of
Pieces ==
    { <<"$","i","f","[","1","=","=","1","]">>, <<"$","i","f","[","1","=","=","2","]">>, <<"$",
            "e","l","s","e","i","f","[","1","=","=","1","]">>, <<"$","e","l","s","e","i","f",
            "[","1","=","=","2","]">>, <<"$","e","l","s","e">>,
      <<"$","e","n","d","i","f">>, <<>> }

\* pieces in a row, the k-th followed by a text of its own
PieceCode(pieces) ==
    Cat([k \in 1..Len(pieces) |-> pieces[k] \o <<":", UpperLetters[k]>>])

ConditionalCodes ==
    UNION { {PieceCode(pieces) : pieces \in [1..n -> Pieces]} : n \in 0..MaxPieces }

\* code of the other branches of tokenize
OtherTemplates ==
    { <<"a","/","/","b","\n","c">>, <<"a","/","b">>, <<"$","i","f">>, <<"$","i","f","[","]"
            >>, <<"$","i","f","[","1","=","=","1">>, <<"$","n","o","p","e","["," ","a"," ",";",
            "b","]">>, <<"$","n","o","p","e","[","/","*","]">>,
      <<"$">>, <<"$","I","F","[","$","u","w","u","f","y","[","t","r","u","e","]","]","x","$",
              "E","n","d","I","f">>, <<"$","u","w","u","f","y","[","/","*","]">>, <<"$","l","o",
              "g","[","a","]","$","u","w","u","f","y","["," ","r","o","l","l"," ",";","x","[",
              ";","]","]">>,
      <<"$","e","l","s","e","[","x","]">>, <<"$","i","f","[","1","=","=","2","]","a","$","i",
              "f","[","1","=","=","1","]","b","$","e","n","d","i","f","$","e","l","s","e"," ",
              "c","$","i","f","[","1","=","=","1","]","d","$","e","l","s","e"," ","e","$","e",
              "n","d","i","f","$","e","n","d","i","f">> }

TemplateSources ==
    {TemplateCode} \cup CommentCodes \cup ConditionalCodes \cup OtherTemplates

InitTemplate ==
    /\ input \in TemplateSources
    /\ program = <<>>
    /\ errors = <<>>
    /\ heap = <<>>
    /\ result = <<>>
    /\ idx = 0
    /\ pc = "code"
    /\ second = NoRun
    /\ lexer = NoLexer
    /\ parser = NoParser

\* const tokens = Lexer.run(code, client, config)
LexerRun ==
    /\ pc = "code"
    /\ \E lexed \in {tokenize(input)} :
          IF lexed.ok
          THEN /\ program' = lexed.tokens
               /\ pc' = "tokens"
               /\ UNCHANGED errors
          ELSE /\ errors' = lexed
               /\ pc' = "tokenize threw"
               /\ UNCHANGED program
    /\ UNCHANGED <<input, heap, result, idx, second, lexer, parser>>

\* const result = AST.run(tokens, client, code, config); return result
AstRun ==
    /\ pc = "tokens"
    /\ \E evaluated \in {evaluate(program)} :
          IF evaluated.ok
          THEN /\ result' = evaluated.result
               /\ heap' = evaluated.emitted
               /\ pc' = "returned"
               /\ UNCHANGED errors
          ELSE /\ errors' = evaluated
               /\ pc' = "evaluate threw"
               /\ UNCHANGED <<heap, result>>
    /\ UNCHANGED <<input, program, idx, second, lexer, parser>>

NextTemplate == LexerRun \/ AstRun

SpecTemplate == InitTemplate /\ [][NextTemplate]_vars

\* whether s has the two characters c1 c2 at position i
HasAt(s, i, c1, c2) == i + 1 <= Len(s) /\ s[i] = c1 /\ s[i + 1] = c2

\* the position of the first "/*" of s, 0 if there is none
FirstOpener(s) ==
    IF \E i \in 1..Len(s) : HasAt(s, i, "/", "*")
    THEN CHOOSE i \in 1..Len(s) :
             HasAt(s, i, "/", "*") /\ \A j \in 1..(i - 1) : ~HasAt(s, j, "/", "*")
    ELSE 0

\* C26: code whose block comment opener /* has no closing */ after it is
\* never tokenized: tokenize throws the CodeError 'Unexpected end of input'.
\* (In the code checked here nothing but text precedes the first opener.)
C26_UnclosedCommentThrows ==
    (/\ input \in CommentCodes
     /\ \A j \in (FirstOpener(input) + 2)..Len(input) : ~HasAt(input, j, "*", "/"))
        => /\ pc # "tokens"
           /\ pc # "code" => /\ pc = "tokenize threw"
                             /\ errors.name = "CodeError"
                             /\ errors.message = "Unexpected end of input"


\* the number of $if blocks that are open before token i
Depth(tokens, i) ==
    Cardinality({j \in 1..(i - 1) : tokens[j].type = "IF"})
        - Cardinality({j \in 1..(i - 1) : tokens[j].type = "ENDIF"})

\* every $if is closed by an $endif of its own, and no $elseif, $else or
\* $endif stands outside an $if block
ProperlyNested(tokens) ==
    /\ \A i \in 1..Len(tokens) :
          tokens[i].type \in {"ELSEIF", "ELSE", "ENDIF"} => Depth(tokens, i) > 0
    /\ Depth(tokens, Len(tokens) + 1) = 0

\* whether token j starts a branch of a block of nesting depth k
StartsBranch(tokens, j, k) ==
    \/ tokens[j].type = "IF" /\ Depth(tokens, j) + 1 = k
    \/ tokens[j].type \in {"ELSEIF", "ELSE"} /\ Depth(tokens, j) = k

\* whether the condition of the branch that token j starts holds
BranchHolds(tokens, j) ==
    \/ tokens[j].type = "ELSE"
    \/ /\ Len(tokens[j].args) > 0
       /\ Str(tokens[j].args[1]) = "true" \/ CheckCondition(tokens[j].args[1])

\* whether token i lies in the first branch that holds of every block
\* around it
InFirstBranches(tokens, i) ==
    \A k \in 1..Depth(tokens, i) :
        \E b \in 1..(i - 1) :
            /\ StartsBranch(tokens, b, k)
            /\ \A j \in (b + 1)..(i - 1) : ~StartsBranch(tokens, j, k)
            /\ BranchHolds(tokens, b)
            /\ \E o \in 1..b :
                  /\ tokens[o].type = "IF" /\ StartsBranch(tokens, o, k)
                  /\ \A j \in (o + 1)..b : ~(tokens[j].type = "IF" /\ StartsBranch(tokens, j, k))
                  /\ \A j \in o..(b - 1) :
                        StartsBranch(tokens, j, k) => ~BranchHolds(tokens, j)

RECURSIVE FirstBranchesFrom(_, _)
\* what the texts and functions from token i on that lie in first branches
\* that hold put out
FirstBranchesFrom(tokens, i) ==
    IF i > Len(tokens) THEN <<>>
    ELSE (IF tokens[i].type = "TEXT" /\ InFirstBranches(tokens, i)
          THEN <<tokens[i].name>>
          ELSE IF tokens[i].type = "FUNCTION" /\ InFirstBranches(tokens, i)
                  /\ FunctionCode("$" \o Str(toLowerCase(tokens[i].name)),
                                  tokens[i].args) # <<>>
          THEN <<FunctionCode("$" \o Str(toLowerCase(tokens[i].name)), tokens[i].args)>>
          ELSE <<>>) \o FirstBranchesFrom(tokens, i + 1)

\* C30: AST.evaluate returns a string exactly for the token sequences whose
\* $if, $elseif, $else and $endif are properly nested and throws a CodeError
\* for every other one; the output of a run that returns is made of the
\* texts and functions that lie, for every conditional around them, in its
\* first branch whose condition holds, so that no conditional puts out more
\* than one of its branches.
C30_NestedOrCodeError ==
    pc \in {"returned", "evaluate threw"} =>
        /\ pc = "returned" <=> ProperlyNested(program)
        /\ pc = "evaluate threw" => errors.name = "CodeError"
        /\ pc = "returned" =>
              /\ heap = FirstBranchesFrom(program, 1)
              /\ result = trim(join(heap, <<>>))

C30_Witness ==
    /\ input = PieceCode(<< <<"$","i","f","[","1","=","=","2","]">>, <<"$","e","l","s","e","i",
            "f","[","1","=","=","1","]">>, <<"$","e","l","s","e">>, <<"$","e","n","d","i","f"
            >> >>)
    /\ pc = "returned"
    /\ Len(program) = 9
    /\ heap = << <<":","B">>, <<":","D">> >>

====
